---- MODULE Spec2Model ----
(***************************************************************************)
(* Merkle-tree airdrop commitment engine (pkg/merkle, pkg/data, main.go,   *)
(* contracts/MerkleAirdrop.sol) as a state machine.                        *)
(*                                                                         *)
(* Byte strings and Go strings are records [len, code]: len is the Go      *)
(* length, code the content as a sequence of bytes (0..255).  Widths are   *)
(* scaled down (WordSize stands for the 32-byte word, AddressLength for    *)
(* the 20-byte address, IndexSize for the 4-byte index).  Keccak256 is     *)
(* collision-free: a digest is one word long and its content is an order   *)
(* byte (a mixing of the preimage, so that the byte order of digests is    *)
(* unrelated to the order of their preimages) followed by the preimage.    *)
(***************************************************************************)
EXTENDS Integers, Sequences, FiniteSets, TLC

\* Scaled widths, in bytes.
WordSize == 2
AddressLength == 1
IndexSize == 1
\* Largest number of claims in an input list.
MaxClaims == 5

VARIABLES
    inputs,   \* the claim lists as the callers first held them (never written)
    slices,   \* the callers' claim slices (backing arrays), by slice id
    trees,    \* the MerkleTree objects, by tree id
    ret,      \* what the last call returned
    \* GenerateAllProofs, or BatchProcessor.ProcessClaims, one call:
    main,     \* the calling goroutine: pc, NumCPU, numWorkers, the proofs map, the return
    jobs,     \* the jobs channel: buffer, capacity, closed
    results,  \* the results channel: buffer, capacity, closed
    workers,  \* the worker goroutines: pc and the claim in hand
    sender,   \* the goroutine sending the jobs: the next position to send, or done
    closer,   \* the goroutine closing results after wg.Wait()
    wg,       \* the WaitGroup counter
    taken,    \* per claim of the tree, how often a worker received it from jobs
    batch,    \* ProcessClaims: len(claims), BatchSize, Workers, and the processFn calls
    \* HashInternal on byte slices:
    heap,     \* the backing arrays, each a sequence of 32-byte words
    bufs,     \* the byte slices in scope: backing array and length in words
    hashRet,  \* what the last HashInternal call did
    derivers, \* goroutines inside GenerateProof at the same time: position and locals
    \* OptimizedHashLeaf:
    pool,     \* HashPool: the buffers ever made (their bytes) and those in the pool
    callers,  \* goroutines inside OptimizedHashLeaf: position, arguments, data, result
    \* MerkleAirdrop, one deployment:
    merkleRoot, claimed, totalClaimed, claimDeadline,
    timestamp,  \* block.timestamp
    balances,   \* the token's balances
    claimCount, \* per account, the successful claims so far
    claimCalls, \* the claim() calls the accounts have at hand
    emitted,    \* per account, the amounts of its Claimed events so far
    txn         \* the last transaction and how it ended

libVars == <<inputs, slices, trees, ret>>
pipeVars == <<main, jobs, results, workers, sender, closer, wg, taken, batch>>
heapVars == <<heap, bufs, hashRet, derivers, pool, callers>>
chainVars == <<merkleRoot, claimed, totalClaimed, claimDeadline, timestamp, balances,
               claimCount, claimCalls, emitted, txn>>
vars == <<inputs, slices, trees, ret, main, jobs, results, workers, sender, closer, wg,
          taken, batch,
          heap, bufs, hashRet, derivers, pool, callers,
          merkleRoot, claimed, totalClaimed, claimDeadline, timestamp, balances,
          claimCount, claimCalls, emitted, txn>>

-----------------------------------------------------------------------------
(* Bytes and strings *)

Bytes(code) == [len |-> Len(code), code |-> code]

Cat(a, b) == [len |-> a.len + b.len, code |-> a.code \o b.code]

Zeros(n) == [i \in 1..n |-> 0]

Pow256(w) == 256 ^ w

Abs(x) == IF x < 0 THEN 0 - x ELSE x

RECURSIVE BigEndian(_, _)
BigEndian(x, w) ==
    IF w = 0 THEN <<>> ELSE Append(BigEndian(x \div 256, w - 1), x % 256)

\* big.Int.FillBytes: the absolute value, zero-extended big-endian; panics when
\* it does not fit the buffer.
FillBytesPanics(amount, w) == Abs(amount) >= Pow256(w)

FillBytes(amount, w) == BigEndian(Abs(amount), w)

\* binary.BigEndian.PutUint32 of a uint32.
PutUint32(index) == BigEndian(index % Pow256(IndexSize), IndexSize)

\* s before t in lexicographic order (a proper prefix comes first).
LexLess(s, t) ==
    LET n == IF Len(s) < Len(t) THEN Len(s) ELSE Len(t)
        differ == {i \in 1..n : s[i] # t[i]}
    IN  IF differ = {} THEN Len(s) < Len(t)
        ELSE LET d == CHOOSE i \in differ : \A j \in differ : i <= j
             IN  s[d] < t[d]

\* Go's string(a) < string(b): byte-wise lexicographic comparison.
StringLess(a, b) ==
    \/ LexLess(a.code, b.code)
    \/ a.code = b.code /\ a.len < b.len

\* A mixing of the bytes code[lo..hi], halves first.
RECURSIVE MixRange(_, _, _)
MixRange(code, lo, hi) ==
    IF lo > hi THEN 5
    ELSE IF lo = hi THEN ((code[lo] * 7) + 1) % 251
    ELSE LET mid == (lo + hi) \div 2
         IN  ((MixRange(code, lo, mid) * 31) + (MixRange(code, mid + 1, hi) * 17) + 3) % 251

\* crypto.Keccak256, collision-free: the order byte, then the preimage.
Keccak256(data) ==
    [len  |-> WordSize,
     code |-> <<(MixRange(data.code, 1, Len(data.code)) + data.len) % 251, data.len,
                Len(data.code)>>
              \o data.code]

HexDigit(n) == IF n < 10 THEN 48 + n ELSE 87 + n

\* The lowercase hex characters of a sequence of bytes (fmt's %x).
HexChars(code) ==
    [i \in 1..(2 * Len(code)) |->
        LET b == code[(i + 1) \div 2]
        IN  HexDigit(IF i % 2 = 1 THEN b \div 16 ELSE b % 16)]

\* fmt.Sprintf("0x%x", hash)
SprintfHex(h) ==
    [len |-> 2 + 2 * h.len, code |-> <<48, 120>> \o HexChars(h.code)]

IsHexChar(c) == (c >= 48 /\ c <= 57) \/ (c >= 97 /\ c <= 102) \/ (c >= 65 /\ c <= 70)

FromHexChar(c) ==
    IF c <= 57 THEN c - 48 ELSE IF c >= 97 THEN c - 87 ELSE c - 55

\* s[2:] of a Go string
DropPrefix(s) ==
    [len |-> s.len - 2, code |-> SubSeq(s.code, 3, Len(s.code))]

\* hex.DecodeString: an error for an odd length or a character that is no hex digit.
DecodeStringFails(s) ==
    \/ s.len % 2 # 0
    \/ Len(s.code) % 2 # 0
    \/ \E i \in 1..Len(s.code) : ~IsHexChar(s.code[i])

DecodeString(s) ==
    [len  |-> s.len \div 2,
     code |-> [i \in 1..(Len(s.code) \div 2) |->
                  16 * FromHexChar(s.code[2 * i - 1]) + FromHexChar(s.code[2 * i])]]

\* common.Address.Hex(): "0x" and the EIP-55 checksummed hex of the address; a
\* letter is upper case when the matching nibble of the Keccak256 of the lower
\* case hex is above 7.
Hex(address) ==
    LET lower == HexChars(address)
        hash  == Keccak256(Bytes(lower)).code
        nib(i) == LET hb == hash[(i + 1) \div 2]
                  IN  IF i % 2 = 1 THEN hb \div 16 ELSE hb % 16
    IN  Bytes(<<48, 120>> \o
              [i \in 1..Len(lower) |->
                  IF lower[i] > 57 /\ nib(i) > 7 THEN lower[i] - 32 ELSE lower[i]])

RECURSIVE Digits(_)
Digits(n) == IF n < 10 THEN <<48 + n>> ELSE Append(Digits(n \div 10), 48 + (n % 10))

\* big.Int.String(): the decimal rendering.
String(amount) ==
    Bytes(IF amount < 0 THEN <<45>> \o Digits(0 - amount) ELSE Digits(amount))

-----------------------------------------------------------------------------
(* pkg/merkle/hash.go *)

HashLeafPanics(address, amount, index) == FillBytesPanics(amount, WordSize)

HashLeaf(address, amount, index) ==
    LET addressBytes == Zeros(WordSize - AddressLength) \o address
        amountBytes  == FillBytes(amount, WordSize)
        indexBytes   == PutUint32(index)
    IN  Keccak256(Bytes(addressBytes \o amountBytes \o indexBytes))

HashInternalPanics(left, right) == left.len # WordSize \/ right.len # WordSize

HashInternal(left, right) ==
    Keccak256(IF StringLess(left, right) THEN Cat(left, right) ELSE Cat(right, left))

-----------------------------------------------------------------------------
(* pkg/merkle/types.go, pkg/merkle/tree.go *)

AirdropClaim(address, amount, index) ==
    [Address |-> address, Amount |-> amount, Index |-> index]

\* A MerkleTree: Root is the root node's hash, Leaves the leaf nodes (Hash, and
\* Data, the position in the claim slice the leaf points into), Claims the id of
\* the caller's slice the tree shares.
MerkleTree(root, leaves, claims) ==
    [Built |-> TRUE, Root |-> root, Leaves |-> leaves, Claims |-> claims]

NoTree == [Built |-> FALSE, Root |-> Bytes(<<>>), Leaves |-> <<>>, Claims |-> 0]

\* No sorting: the positions in the order handed in.
InputOrder(key, S) == {[i \in 1..Cardinality(S) |-> i]}

\* sort.Slice by Address.Hex(): every order of the positions that the comparison
\* allows (the sort is not stable, so equal keys may end in any order).
RECURSIVE SortedOrders(_, _)
SortedOrders(key, S) ==
    IF S = {} THEN {<<>>}
    ELSE UNION {{<<m>> \o rest : rest \in SortedOrders(key, S \ {m})} :
                m \in {x \in S : \A y \in S : ~StringLess(key[y], key[x])}}

\* One level up with the last node of an odd level promoted as it is.
NextLevelPromote(nodes) ==
    [k \in 1..((Len(nodes) + 1) \div 2) |->
        IF 2 * k <= Len(nodes) THEN HashInternal(nodes[2 * k - 1], nodes[2 * k])
        ELSE nodes[2 * k - 1]]

\* One level up: positions 0-1, 2-3, ... combined, the last node of an odd level
\* with itself.
NextLevel(nodes) ==
    [k \in 1..((Len(nodes) + 1) \div 2) |->
        LET left  == nodes[2 * k - 1]
            right == IF 2 * k <= Len(nodes) THEN nodes[2 * k] ELSE left
        IN  HashInternal(left, right)]

RECURSIVE buildTree(_)
buildTree(nodes) ==
    IF Len(nodes) = 1 THEN nodes[1] ELSE buildTree(NextLevel(nodes))

\* The number of parent links buildTree puts between the nodes handed in and
\* the root it returns: one per recursive call.
RECURSIVE buildTreeDepth(_)
buildTreeDepth(nodes) ==
    IF Len(nodes) = 1 THEN 0 ELSE 1 + buildTreeDepth(NextLevel(nodes))

\* The outcomes of NewMerkleTree(claims) on slice s: err (an error was returned
\* and no tree), panic (HashLeaf panicked after the slice was sorted and
\* re-indexed), claims (the caller's slice afterwards), tree.
NewMerkleTree(claims, s) ==
    IF Len(claims) = 0
    THEN {[err |-> TRUE, panic |-> FALSE, claims |-> claims, tree |-> NoTree]}
    ELSE LET key == [i \in 1..Len(claims) |-> Hex(claims[i].Address)]
         IN  {LET sorted == [i \in 1..Len(claims) |->
                                [claims[p[i]] EXCEPT !.Index = i - 1]]
                  panics == \E i \in 1..Len(sorted) :
                                HashLeafPanics(sorted[i].Address, sorted[i].Amount,
                                               sorted[i].Index)
                  leaves == [i \in 1..Len(sorted) |->
                                [Hash |-> HashLeaf(sorted[i].Address, sorted[i].Amount,
                                                   sorted[i].Index),
                                 Data |-> i]]
              IN  IF panics
                  THEN [err |-> FALSE, panic |-> TRUE, claims |-> sorted, tree |-> NoTree]
                  ELSE [err |-> FALSE, panic |-> FALSE, claims |-> sorted,
                        tree |-> MerkleTree(
                                    buildTree([i \in 1..Len(leaves) |-> leaves[i].Hash]),
                                    leaves, s)]
              : p \in SortedOrders(key, 1..Len(claims))}

GetRootHash(tree) ==
    IF ~tree.Built THEN Bytes(<<>>) ELSE SprintfHex(tree.Root)

-----------------------------------------------------------------------------
(* pkg/merkle/proof.go *)

\* PairEntry with the left node of the pair taken as the sibling on either side.
PairEntryLeftOnly(nodes, i, currentIndex) ==
    IF i = currentIndex \/ i + 1 = currentIndex THEN <<SprintfHex(nodes[i + 1])>>
    ELSE <<>>

\* What one pair (positions i, i+1, from 0) of a level adds to the proof.
PairEntry(nodes, i, currentIndex) ==
    LET left  == nodes[i + 1]
        right == IF i + 1 < Len(nodes) THEN nodes[i + 2] ELSE left
    IN  IF i = currentIndex
        THEN IF currentIndex % 2 = 0 THEN <<SprintfHex(right)>> ELSE <<SprintfHex(left)>>
        ELSE IF i + 1 = currentIndex THEN <<SprintfHex(left)>>
        ELSE <<>>

RECURSIVE LevelEntries(_, _, _)
LevelEntries(nodes, i, currentIndex) ==
    IF i >= Len(nodes) THEN <<>>
    ELSE PairEntry(nodes, i, currentIndex) \o LevelEntries(nodes, i + 2, currentIndex)

\* generateProofPath that keeps the index as it is from level to level.
RECURSIVE generateProofPathSameIndex(_, _)
generateProofPathSameIndex(nodes, index) ==
    IF Len(nodes) <= 1 THEN <<>>
    ELSE LevelEntries(nodes, 0, index)
         \o generateProofPathSameIndex(NextLevel(nodes), index)

\* generateProofPath over the hashes of a level: the entries of this level, then
\* those of the levels above with the index halved.
RECURSIVE generateProofPath(_, _)
generateProofPath(nodes, index) ==
    IF Len(nodes) <= 1 THEN <<>>
    ELSE LevelEntries(nodes, 0, index)
         \o generateProofPath(NextLevel(nodes), index \div 2)

LeafHashes(tree) == [i \in 1..Len(tree.Leaves) |-> tree.Leaves[i].Hash]

\* GenerateProof that falls back to the first leaf when no claim has the address.
GenerateProofFallback(tree, claims, address) ==
    LET found == {i \in 1..Len(tree.Leaves) :
                     claims[tree.Leaves[i].Data].Address = address}
        i == IF found = {} THEN 1 ELSE CHOOSE x \in found : \A y \in found : x <= y
    IN  [err    |-> FALSE,
         Proof  |-> generateProofPath(LeafHashes(tree), i - 1),
         Index  |-> i - 1,
         Amount |-> String(claims[tree.Leaves[i].Data].Amount)]

\* GenerateProof: err when no leaf's claim has the address, else the proof of the
\* first such leaf.  claims is the slice the leaves point into.
GenerateProof(tree, claims, address) ==
    LET found == {i \in 1..Len(tree.Leaves) :
                     claims[tree.Leaves[i].Data].Address = address}
    IN  IF found = {}
        THEN [err |-> TRUE, Proof |-> <<>>, Index |-> 0, Amount |-> Bytes(<<>>)]
        ELSE LET i == CHOOSE x \in found : \A y \in found : x <= y
             IN  [err    |-> FALSE,
                  Proof  |-> generateProofPath(LeafHashes(tree), i - 1),
                  Index  |-> i - 1,
                  Amount |-> String(claims[tree.Leaves[i].Data].Amount)]

-----------------------------------------------------------------------------
(* main.go *)

\* calculateTreeHeight with the division rounded down.
RECURSIVE calculateTreeHeightFloor(_)
calculateTreeHeightFloor(numLeaves) ==
    IF numLeaves <= 1 THEN 0 ELSE 1 + calculateTreeHeightFloor(numLeaves \div 2)

\* calculateTreeHeight (main.go): the halvings, rounded up, until one node is left.
RECURSIVE calculateTreeHeight(_)
calculateTreeHeight(numLeaves) ==
    IF numLeaves <= 1 THEN 0 ELSE 1 + calculateTreeHeight((numLeaves + 1) \div 2)

\* calculateTreeDepth (internal/api/handlers.go)
RECURSIVE calculateTreeDepth(_)
calculateTreeDepth(leaves) ==
    IF leaves <= 1 THEN 0 ELSE 1 + calculateTreeDepth((leaves + 1) \div 2)

\* The loop of verifyProof from entry i on: [panic, decoded (FALSE when an entry
\* is no hex), hash].
RECURSIVE verifyFold(_, _, _)
verifyFold(currentHash, proof, i) ==
    IF i > Len(proof) THEN [panic |-> FALSE, decoded |-> TRUE, hash |-> currentHash]
    ELSE IF proof[i].len < 2
         THEN [panic |-> TRUE, decoded |-> TRUE, hash |-> currentHash]
    ELSE IF DecodeStringFails(DropPrefix(proof[i]))
         THEN [panic |-> FALSE, decoded |-> FALSE, hash |-> currentHash]
    ELSE LET proofBytes == DecodeString(DropPrefix(proof[i]))
         IN  IF HashInternalPanics(currentHash, proofBytes)
             THEN [panic |-> TRUE, decoded |-> TRUE, hash |-> currentHash]
             ELSE verifyFold(HashInternal(currentHash, proofBytes), proof, i + 1)

\* verifyProof(proof, claim, rootHash): [panic, result].
verifyProof(proof, claim, rootHash) ==
    IF HashLeafPanics(claim.Address, claim.Amount, claim.Index)
    THEN [panic |-> TRUE, result |-> FALSE]
    ELSE LET f == verifyFold(HashLeaf(claim.Address, claim.Amount, claim.Index),
                             proof, 1)
         IN  [panic  |-> f.panic,
              result |-> ~f.panic /\ f.decoded /\ SprintfHex(f.hash) = rootHash]

-----------------------------------------------------------------------------
(* pkg/data/helpers.go *)

\* ValidateClaimsData: "nil", or the error of the first claim that fails a check,
\* the checks of one claim in the order duplicate, amount, zero address.
RECURSIVE ValidateFrom(_, _, _)
ValidateFrom(claims, i, addressMap) ==
    IF i > Len(claims) THEN "nil"
    ELSE LET addrHex == Hex(claims[i].Address)
         IN  IF addrHex \in addressMap THEN "duplicate address"
             ELSE IF claims[i].Amount <= 0 THEN "invalid amount"
             ELSE IF addrHex = Bytes(<<48, 120>> \o [k \in 1..(2 * AddressLength) |-> 48])
                  THEN "zero address"
             ELSE ValidateFrom(claims, i + 1, addressMap \cup {addrHex})

\* ValidateClaimsData without the check for an empty list.
ValidateNonEmpty(claims) == ValidateFrom(claims, 1, {})

ValidateClaimsData(claims) ==
    IF Len(claims) = 0 THEN "no claims provided" ELSE ValidateFrom(claims, 1, {})

-----------------------------------------------------------------------------
(* The inputs: claim lists as a loader or a caller may hand them in. *)

SliceIds == 1..2
TreeIds == 1..2

AddrOf(b) == <<b>> \o Zeros(AddressLength - 1)
ZeroAddress == Zeros(AddressLength)

\* Non-zero addresses; with one-byte addresses 161, 164 and 250 render as "a1",
\* "A4" and "fa".
AddrPool == {AddrOf(1), AddrOf(2), AddrOf(161), AddrOf(164), AddrOf(250)}

\* Amounts by address: all different, or all the same.
AmountMaps ==
    {[a \in AddrPool |-> 1 + (a[1] % 7)], [a \in AddrPool |-> 100]}

\* Every list of at most two claims over a few addresses (the zero address
\* included) and amounts (negative, zero, positive, too wide for a word).
AnyClaims ==
    {AirdropClaim(a, m, 0) :
        a \in {ZeroAddress, AddrOf(1), AddrOf(2)},
        m \in {0 - 1, 0, 1, Pow256(WordSize)}}

AnyLists ==
    {<<>>} \cup {<<c>> : c \in AnyClaims} \cup {<<c, d>> : c, d \in AnyClaims}

\* A subset of addresses as a list, highest address first.
RECURSIVE Descending(_)
Descending(S) ==
    IF S = {} THEN <<>>
    ELSE LET m == CHOOSE x \in S : \A y \in S : y[1] <= x[1]
         IN  <<m>> \o Descending(S \ {m})

\* Lists of distinct non-zero addresses with positive amounts, indexed by
\* position as LoadAirdropFromCSV and GenerateTestData do.
SubsetLists ==
    {LET q == Descending(S)
     IN  [i \in 1..Len(q) |-> AirdropClaim(q[i], am[q[i]], i - 1)] :
        S \in {T \in SUBSET AddrPool : T # {} /\ Cardinality(T) <= MaxClaims},
        am \in AmountMaps}

\* The same claims in every order, with arbitrary incoming indices.
Reorderings(list) ==
    {[k \in 1..Len(list) |-> [list[p[k]] EXCEPT !.Index = 7]] :
        p \in Permutations(1..Len(list))}

Crashed == ret.panic

\* The claim slice tree t shares with its caller (mt.Claims).
TreeClaimsOf(t) == slices[trees[t].Claims]

\* No GenerateAllProofs call under way.
PipeIdle ==
    /\ main = [pc |-> "idle", numCPU |-> 0, numWorkers |-> 0, t |-> 0,
               proofs |-> <<>>, err |-> FALSE, nilmap |-> FALSE]
    /\ jobs = [buf |-> <<>>, cap |-> 0, closed |-> FALSE]
    /\ results = [buf |-> <<>>, cap |-> 0, closed |-> FALSE]
    /\ workers = <<>>
    /\ sender = 0
    /\ closer = "none"
    /\ wg = 0
    /\ taken = <<>>
    /\ batch = [n |-> 0, BatchSize |-> 0, Workers |-> 0, calls |-> <<>>]

\* No contract deployed.
ChainIdle ==
    /\ merkleRoot = Bytes(<<>>)
    /\ claimed = <<>>
    /\ totalClaimed = 0
    /\ claimDeadline = 0
    /\ timestamp = 0
    /\ balances = <<>>
    /\ claimCount = <<>>
    /\ claimCalls = {}
    /\ emitted = <<>>
    /\ txn = [op |-> "none", reverted |-> FALSE, reason |-> ""]

\* No byte slices in scope.
HeapIdle ==
    /\ heap = <<>>
    /\ bufs = <<>>
    /\ hashRet = [op |-> "none", panic |-> FALSE]
    /\ derivers = <<>>
    /\ pool = [arrays |-> <<>>, free |-> {}]
    /\ callers = <<>>

Init ==
    /\ \E list \in SubsetLists \cup AnyLists :
          \E other \in Reorderings(list) :
              slices = <<list, other>>
    /\ inputs = slices
    /\ trees = [t \in TreeIds |-> NoTree]
    /\ ret = [op |-> "none", err |-> FALSE, panic |-> FALSE]
    /\ PipeIdle
    /\ HeapIdle
    /\ ChainIdle

\* err := data.ValidateClaimsData(slices[s])
ValidateClaimsDataCall(s) ==
    /\ ~Crashed
    /\ ret' = [op |-> "ValidateClaimsData", err |-> ValidateClaimsData(slices[s]) # "nil",
               panic |-> FALSE, s |-> s, error |-> ValidateClaimsData(slices[s]),
               before |-> slices[s]]
    /\ UNCHANGED <<inputs, slices, trees>>
    /\ UNCHANGED <<pipeVars, heapVars, chainVars>>

\* trees[t], err := merkle.NewMerkleTree(slices[s])
NewMerkleTreeCall(t, s) ==
    /\ ~Crashed
    /\ ~trees[t].Built
    /\ \E o \in NewMerkleTree(slices[s], s) :
          /\ slices' = [slices EXCEPT ![s] = o.claims]
          /\ trees' = [trees EXCEPT ![t] = o.tree]
          /\ ret' = [op |-> "NewMerkleTree", err |-> o.err, panic |-> o.panic,
                     t |-> t, s |-> s, before |-> slices[s]]
    /\ UNCHANGED inputs
    /\ UNCHANGED <<pipeVars, heapVars, chainVars>>

\* Every node hash of the tree, level by level.
RECURSIVE AllNodes(_)
AllNodes(nodes) ==
    {nodes[i] : i \in 1..Len(nodes)}
    \cup (IF Len(nodes) <= 1 THEN {} ELSE AllNodes(NextLevel(nodes)))

\* proof, err := trees[t].GenerateProof(address)
GenerateProofCall(t, address) ==
    /\ ~Crashed
    /\ trees[t].Built
    /\ LET g == GenerateProof(trees[t], slices[trees[t].Claims], address)
       IN  ret' = [op |-> "GenerateProof", err |-> g.err, panic |-> FALSE, t |-> t,
                   address |-> address, proof |-> g]
    /\ UNCHANGED <<inputs, slices, trees>>
    /\ UNCHANGED <<pipeVars, heapVars, chainVars>>

\* Amounts a forged claim may carry: values of [0, 2^256).
TamperAmounts == {0, 1, 2, 3, 100, Pow256(WordSize) - 1}

\* What a caller may hand to verifyProof in place of claim c and proof pf: the
\* two as they are, or with one field or one sibling replaced.
VerifyInputs(tree, c, pf) ==
    {[kind |-> "none", claim |-> c, proof |-> pf]}
    \cup {[kind |-> "address", claim |-> [c EXCEPT !.Address = a], proof |-> pf] :
            a \in (AddrPool \cup {ZeroAddress}) \ {c.Address}}
    \cup {[kind |-> "amount", claim |-> [c EXCEPT !.Amount = m], proof |-> pf] :
            m \in TamperAmounts \ {c.Amount}}
    \cup {[kind |-> "index", claim |-> [c EXCEPT !.Index = x], proof |-> pf] :
            x \in (0..MaxClaims) \ {c.Index}}
    \cup UNION {{[kind |-> "sibling", claim |-> c, proof |-> [pf EXCEPT ![k] = h]] :
                    h \in ({SprintfHex(n) : n \in AllNodes(LeafHashes(tree))}
                           \cup {SprintfHex(HashLeaf(c.Address, c.Amount + 1, c.Index))})
                          \ {pf[k]}} :
                k \in 1..Len(pf)}

\* What else a caller may hand to verifyProof: an amount too wide for a word,
\* and a proof with one more entry that is a hash of the wrong length
\* ("short", "long"), no hex ("nothex", "odd") or shorter than its prefix
\* ("empty").
MalformedInputs(c, pf) ==
    {[kind |-> "overflow", claim |-> [c EXCEPT !.Amount = Pow256(WordSize)], proof |-> pf],
     [kind |-> "short", claim |-> c,
      proof |-> Append(pf, SprintfHex(Bytes(Zeros(WordSize - 1))))],
     [kind |-> "long", claim |-> c,
      proof |-> Append(pf, SprintfHex(Bytes(Zeros(WordSize + 1))))],
     [kind |-> "nothex", claim |-> c,
      proof |-> Append(pf, Bytes(<<48, 120>> \o [i \in 1..(2 * WordSize) |-> 122]))],
     [kind |-> "odd", claim |-> c,
      proof |-> Append(pf, Bytes(<<48, 120>> \o [i \in 1..(2 * WordSize - 1) |-> 97]))],
     [kind |-> "empty", claim |-> c, proof |-> Append(pf, Bytes(<<>>))]}

\* valid := verifyProof(proof, claim, trees[t].GetRootHash()) with the proof the
\* last GenerateProof call returned and a claim of the tree with that address.
verifyProofCall(t) ==
    /\ ~Crashed
    /\ ret.op = "GenerateProof" /\ ~ret.err /\ ret.t = t
    /\ \E i \in 1..Len(slices[trees[t].Claims]) :
          /\ slices[trees[t].Claims][i].Address = ret.address
          /\ \E in \in VerifyInputs(trees[t], slices[trees[t].Claims][i], ret.proof.Proof)
                       \cup MalformedInputs(slices[trees[t].Claims][i], ret.proof.Proof) :
                LET v == verifyProof(in.proof, in.claim, GetRootHash(trees[t]))
                IN  ret' = [op |-> "verifyProof", err |-> FALSE, panic |-> v.panic,
                            t |-> t, kind |-> in.kind, claim |-> in.claim,
                            proof |-> in.proof, honest |-> slices[trees[t].Claims][i],
                            result |-> v.result]
    /\ UNCHANGED <<inputs, slices, trees>>
    /\ UNCHANGED <<pipeVars, heapVars, chainVars>>

InitProof ==
    /\ \E list \in SubsetLists \cup AnyLists : slices = <<list, <<>>>>
    /\ inputs = slices
    /\ trees = [t \in TreeIds |-> NoTree]
    /\ ret = [op |-> "none", err |-> FALSE, panic |-> FALSE]
    /\ PipeIdle
    /\ HeapIdle
    /\ ChainIdle

NextProof ==
    \/ NewMerkleTreeCall(1, 1)
    \/ \E a \in AddrPool \cup {ZeroAddress} : GenerateProofCall(1, a)
    \/ verifyProofCall(1)

SpecProof == InitProof /\ [][NextProof]_vars

-----------------------------------------------------------------------------
(* HashInternal (pkg/merkle/hash.go) on Go byte slices.  A backing array is a
   sequence of words of WordSize bytes, a slice [arr, len] the first len words
   of array arr, its capacity the length of the array. *)

\* Largest capacity, in words, of a slice handed to HashInternal, and the
\* number of calls followed.
MaxCap == 3
MaxHashCalls == 2

RECURSIVE CatWords(_, _)
CatWords(words, n) ==
    IF n = 0 THEN Bytes(<<>>) ELSE Cat(CatWords(words, n - 1), words[n])

\* The bytes a slice shows.
View(h, b) == CatWords(h[b.arr], b.len)

\* append(s, t...): in place when the capacity of s allows, else into a new
\* backing array.
GoAppend(h, s, t) ==
    LET n == s.len + t.len
    IN  IF n <= Len(h[s.arr])
        THEN [heap |-> [h EXCEPT ![s.arr] =
                           [k \in 1..Len(h[s.arr]) |->
                               IF k > s.len /\ k <= n THEN h[t.arr][k - s.len]
                               ELSE h[s.arr][k]]],
              out  |-> [arr |-> s.arr, len |-> n]]
        ELSE [heap |-> Append(h, [k \in 1..n |->
                                     IF k <= s.len THEN h[s.arr][k]
                                     ELSE h[t.arr][k - s.len]]),
              out  |-> [arr |-> Len(h) + 1, len |-> n]]

\* HashInternal that always puts left first.
HashInternalLeftFirst(h, left, right) ==
    IF HashInternalPanics(View(h, left), View(h, right))
    THEN [panic |-> TRUE, heap |-> h, out |-> left]
    ELSE LET data == GoAppend(h, left, right)
         IN  [panic |-> FALSE,
              heap  |-> Append(data.heap, <<Keccak256(View(data.heap, data.out))>>),
              out   |-> [arr |-> Len(data.heap) + 1, len |-> 1]]

\* HashInternal(left, right) on the heap: [panic, heap, out].  crypto.Keccak256
\* returns a new slice of one word.
HashInternalHeap(h, left, right) ==
    IF HashInternalPanics(View(h, left), View(h, right))
    THEN [panic |-> TRUE, heap |-> h, out |-> left]
    ELSE LET data == IF StringLess(View(h, left), View(h, right))
                     THEN GoAppend(h, left, right)
                     ELSE GoAppend(h, right, left)
         IN  [panic |-> FALSE,
              heap  |-> Append(data.heap, <<Keccak256(View(data.heap, data.out))>>),
              out   |-> [arr |-> Len(data.heap) + 1, len |-> 1]]

\* The hashes handed in: digests, and the smallest and largest word.
HashWords ==
    {Keccak256(Bytes(<<1>>)), Keccak256(Bytes(<<2>>)),
     Bytes(Zeros(WordSize)), Bytes([i \in 1..WordSize |-> 255])}

\* What the capacity beyond the length holds (hex.DecodeString decodes in
\* place, the rest of the string stays behind).
SpareWord == Bytes([i \in 1..WordSize |-> 102])

HashInternalCall(i, j) ==
    /\ ~hashRet.panic
    /\ Len(bufs) < 2 + MaxHashCalls
    /\ LET r == HashInternalHeap(heap, bufs[i], bufs[j])
       IN  /\ heap' = r.heap
           /\ bufs' = IF r.panic THEN bufs ELSE Append(bufs, r.out)
           /\ hashRet' = [op |-> "HashInternal", panic |-> r.panic, left |-> i,
                          right |-> j, before |-> heap]
    /\ UNCHANGED <<derivers, pool, callers>>
    /\ UNCHANGED <<libVars, pipeVars, chainVars>>

InitHash ==
    /\ \E a \in HashWords, b \in HashWords :
       \E capA \in 1..MaxCap, capB \in 1..MaxCap :
       \E lenA \in {1}, lenB \in {x \in 0..2 : x <= capB} :
          /\ heap = <<[k \in 1..capA |-> IF k = 1 THEN a ELSE SpareWord],
                      [k \in 1..capB |-> IF k = 1 THEN b ELSE SpareWord]>>
          /\ bufs = <<[arr |-> 1, len |-> lenA], [arr |-> 2, len |-> lenB]>>
    /\ hashRet = [op |-> "none", panic |-> FALSE]
    /\ derivers = <<>>
    /\ pool = [arrays |-> <<>>, free |-> {}]
    /\ callers = <<>>
    /\ inputs = <<<<>>, <<>>>>
    /\ slices = inputs
    /\ trees = [t \in TreeIds |-> NoTree]
    /\ ret = [op |-> "none", err |-> FALSE, panic |-> FALSE]
    /\ PipeIdle
    /\ ChainIdle

NextHash == \E i \in 1..Len(bufs), j \in 1..Len(bufs) : HashInternalCall(i, j)

SpecHash == InitHash /\ [][NextHash]_vars

-----------------------------------------------------------------------------
(* contracts/MerkleAirdrop.sol *)

\* The last block.timestamp followed.
MaxTime == 2

\* abi.encode of one uint256.
AbiEncode(x) == Bytes(BigEndian(x, WordSize))

\* The leaf claim() computes.
ContractLeaf(index, account, amount) ==
    Keccak256(Keccak256(Cat(Cat(Keccak256(Bytes(account)), Keccak256(AbiEncode(amount))),
                            Keccak256(AbiEncode(index)))))

\* MerkleProof.verify (OpenZeppelin): the leaf folded through the proof with the
\* sorted-pair Keccak256, compared with the root.
RECURSIVE ProcessProof(_, _, _)
ProcessProof(proof, computedHash, i) ==
    IF i > Len(proof) THEN computedHash
    ELSE ProcessProof(proof,
                      Keccak256(IF LexLess(computedHash.code, proof[i].code)
                                THEN Cat(computedHash, proof[i])
                                ELSE Cat(proof[i], computedHash)),
                      i + 1)

MerkleProofVerify(proof, root, leaf) == ProcessProof(proof, leaf, 1) = root

ContractAddress == AddrOf(204)
Owner == AddrOf(250)

\* The proof strings of the builder as the bytes32[] a caller passes.
Bytes32Proof(proof) == [i \in 1..Len(proof) |-> DecodeString(DropPrefix(proof[i]))]

\* The root and the proofs of a tree over the leaves the contract computes.
CompatibleLeaves(claims) ==
    [i \in 1..Len(claims) |->
        ContractLeaf(claims[i].Index, claims[i].Address, claims[i].Amount)]

\* The calls of claim() at hand for a tree: for each claim of the tree its index,
\* address and amount with the proof GenerateProof returns ("builder"), with the
\* proof over the contract's leaves ("compatible"), and with one more token than
\* its amount ("forged").
ClaimCalls(tree, claims) ==
    UNION {LET c == claims[i]
                   g == GenerateProof(tree, claims, c.Address)
               IN  {[kind |-> "builder", index |-> g.Index, account |-> c.Address,
                     amount |-> c.Amount, proof |-> Bytes32Proof(g.Proof)],
                    [kind |-> "compatible", index |-> c.Index, account |-> c.Address,
                     amount |-> c.Amount,
                     proof |-> Bytes32Proof(
                                  generateProofPath(CompatibleLeaves(claims), i - 1))],
                    [kind |-> "forged", index |-> g.Index, account |-> c.Address,
                     amount |-> c.Amount + 1, proof |-> Bytes32Proof(g.Proof)]}
               : i \in 1..Len(claims)}

\* claim() without the check of the claimed flag.
ClaimOutcomeNoFlag(msgSender, call) ==
    IF timestamp > claimDeadline THEN "Claim period ended"
    ELSE IF call.account # msgSender THEN "Can only claim for yourself"
    ELSE IF ~MerkleProofVerify(call.proof, merkleRoot,
                               ContractLeaf(call.index, call.account, call.amount))
         THEN "Invalid merkle proof"
    ELSE IF balances[ContractAddress] < call.amount THEN "Transfer failed"
    ELSE ""

\* claim() without the check of the caller.
ClaimOutcomeAnySender(msgSender, call) ==
    IF timestamp > claimDeadline THEN "Claim period ended"
    ELSE IF claimed[call.account] THEN "Already claimed"
    ELSE IF ~MerkleProofVerify(call.proof, merkleRoot,
                               ContractLeaf(call.index, call.account, call.amount))
         THEN "Invalid merkle proof"
    ELSE IF balances[ContractAddress] < call.amount THEN "Transfer failed"
    ELSE ""

\* How claim(index, account, amount, merkleProof) sent by msgSender ends: "" when
\* it succeeds, else the reason it reverts with.
ClaimOutcome(msgSender, call) ==
    IF timestamp > claimDeadline THEN "Claim period ended"
    ELSE IF claimed[call.account] THEN "Already claimed"
    ELSE IF call.account # msgSender THEN "Can only claim for yourself"
    ELSE IF ~MerkleProofVerify(call.proof, merkleRoot,
                               ContractLeaf(call.index, call.account, call.amount))
         THEN "Invalid merkle proof"
    ELSE IF totalClaimed + call.amount >= Pow256(WordSize) THEN "Panic(0x11)"
    ELSE IF balances[ContractAddress] < call.amount THEN "Transfer failed"
    ELSE ""

\* totalClaimed = amount
AddClaimedLast(total, amount) == amount

\* totalClaimed += amount
AddClaimed(total, amount) == total + amount

Claim(msgSender, call) ==
    /\ merkleRoot.len = WordSize
    /\ LET reason == ClaimOutcome(msgSender, call)
       IN  /\ txn' = [op |-> "claim", reverted |-> reason # "", reason |-> reason,
                      msgSender |-> msgSender, call |-> call, time |-> timestamp,
                      deadline |-> claimDeadline,
                      wasClaimed |-> claimed[call.account],
                      proofOk |-> MerkleProofVerify(
                                     call.proof, merkleRoot,
                                     ContractLeaf(call.index, call.account, call.amount)),
                      before |-> [claimed |-> claimed, totalClaimed |-> totalClaimed,
                                  balances |-> balances]]
           /\ IF reason = ""
              THEN /\ claimed' = [claimed EXCEPT ![call.account] = TRUE]
                   /\ totalClaimed' = AddClaimed(totalClaimed, call.amount)
                   /\ balances' = [balances EXCEPT
                                      ![ContractAddress] = @ - call.amount,
                                      ![call.account] = @ + call.amount]
                   /\ claimCount' = [claimCount EXCEPT ![call.account] = @ + 1]
                   /\ emitted' = [emitted EXCEPT ![call.account] =
                                     Append(@, call.amount)]
              ELSE UNCHANGED <<claimed, totalClaimed, balances, claimCount, emitted>>
    /\ UNCHANGED <<merkleRoot, claimDeadline, timestamp, claimCalls>>
    /\ UNCHANGED <<libVars, pipeVars, heapVars>>

UpdateDeadline(msgSender, newDeadline) ==
    /\ merkleRoot.len = WordSize
    /\ LET reason == IF msgSender # Owner THEN "OwnableUnauthorizedAccount"
                     ELSE IF newDeadline <= timestamp THEN "Deadline must be in future"
                     ELSE ""
       IN  /\ txn' = [op |-> "updateDeadline", reverted |-> reason # "",
                      reason |-> reason, msgSender |-> msgSender]
           /\ claimDeadline' = IF reason = "" THEN newDeadline ELSE claimDeadline
    /\ UNCHANGED <<merkleRoot, claimed, totalClaimed, timestamp, balances, claimCount,
                   claimCalls, emitted>>
    /\ UNCHANGED <<libVars, pipeVars, heapVars>>

WithdrawUnclaimed(msgSender) ==
    /\ merkleRoot.len = WordSize
    /\ LET reason == IF msgSender # Owner THEN "OwnableUnauthorizedAccount"
                     ELSE IF timestamp <= claimDeadline THEN "Claim period not ended"
                     ELSE ""
       IN  /\ txn' = [op |-> "withdrawUnclaimed", reverted |-> reason # "",
                      reason |-> reason, msgSender |-> msgSender]
           /\ balances' = IF reason = ""
                          THEN [balances EXCEPT
                                   ![Owner] = @ + balances[ContractAddress],
                                   ![ContractAddress] = 0]
                          ELSE balances
    /\ UNCHANGED <<merkleRoot, claimed, totalClaimed, claimDeadline, timestamp, claimCount,
                   claimCalls, emitted>>
    /\ UNCHANGED <<libVars, pipeVars, heapVars>>

\* A later block.
NextBlock ==
    /\ merkleRoot.len = WordSize
    /\ timestamp < MaxTime
    /\ timestamp' = timestamp + 1
    /\ UNCHANGED <<merkleRoot, claimed, totalClaimed, claimDeadline, balances,
                   claimCount, claimCalls, emitted, txn>>
    /\ UNCHANGED <<libVars, pipeVars, heapVars>>

ChainAccounts == AddrPool \cup {ContractAddress}

RECURSIVE Total(_, _)
Total(claims, n) == IF n = 0 THEN 0 ELSE Total(claims, n - 1) + claims[n].Amount

\* The claim lists of the deployments.
ChainLists ==
    {[i \in 1..n |-> AirdropClaim(Descending(AddrPool)[i], 10 + i, 7)] : n \in 1..3}

\* The tree is built, and the contract is deployed with the tree's root or with
\* the root over the contract's own leaves, and funded.
InitContract ==
    /\ \E list \in ChainLists :
          \E o \in NewMerkleTree(list, 1) :
              /\ inputs = <<list, <<>>>>
              /\ slices = <<o.claims, <<>>>>
              /\ trees = <<o.tree, NoTree>>
              /\ ret = [op |-> "NewMerkleTree", err |-> o.err, panic |-> o.panic,
                        t |-> 1, s |-> 1, before |-> list]
              /\ merkleRoot \in {o.tree.Root, buildTree(CompatibleLeaves(o.claims))}
              /\ claimCalls = ClaimCalls(o.tree, o.claims)
              /\ \E short \in 0..1 :
                    balances = [a \in ChainAccounts |->
                                   IF a = ContractAddress
                                   THEN Total(list, Len(list)) - short ELSE 0]
    /\ claimed = [a \in ChainAccounts |-> FALSE]
    /\ claimCount = [a \in ChainAccounts |-> 0]
    /\ emitted = [a \in ChainAccounts |-> <<>>]
    /\ totalClaimed = 0
    /\ claimDeadline = 1
    /\ timestamp = 0
    /\ txn = [op |-> "none", reverted |-> FALSE, reason |-> ""]
    /\ PipeIdle
    /\ HeapIdle

NextContract ==
    \/ \E call \in claimCalls : \E msgSender \in {call.account, Owner} :
          Claim(msgSender, call)
    \/ \E msgSender \in {Owner, AddrOf(1)} : \E d \in 1..MaxTime :
          UpdateDeadline(msgSender, d)
    \/ \E msgSender \in {Owner, AddrOf(1)} : WithdrawUnclaimed(msgSender)
    \/ NextBlock

SpecContract == InitContract /\ [][NextContract]_vars

-----------------------------------------------------------------------------
(* GenerateAllProofs (pkg/merkle/proof.go), goroutine by goroutine *)

\* Largest runtime.NumCPU() and largest tree of a GenerateAllProofs call.
MaxCPU == 2
MaxPipeClaims == 3

\* proofs[key] = value on a Go map.
MapPut(m, key, value) ==
    [k \in DOMAIN m \cup {key} |-> IF k = key THEN value ELSE m[k]]

EmptyMap == [k \in {} |-> 0]

\* A worker that derives every proof for the first claim of the tree.
WorkerResultStale(tree, claims, claim) ==
    LET g == GenerateProof(tree, claims, claims[1].Address)
    IN  [Address |-> Hex(claim.Address), Proof |-> g, Error |-> g.err]

\* The proofResult a worker sends for the claim it took from jobs.
WorkerResult(tree, claims, claim) ==
    LET g == GenerateProof(tree, claims, claim.Address)
    IN  [Address |-> Hex(claim.Address), Proof |-> g, Error |-> g.err]

\* numWorkers without the cap at len(mt.Claims).
NumCPUWorkers(numCPU, n) == numCPU

\* numWorkers: runtime.NumCPU(), at most len(mt.Claims).
NumWorkers(numCPU, n) == IF numCPU > n THEN n ELSE numCPU

\* Channels with room for a single element.
ChannelCapacityOne(n) == 1

\* The capacity of jobs and of results: len(mt.Claims).
ChannelCapacity(n) == n

\* proofs, err := trees[t].GenerateAllProofs(): numWorkers, the two channels, the
\* workers (wg.Add(1) each), the sender and the closer are set up.
GenerateAllProofsStart(t, numCPU) ==
    /\ ~Crashed
    /\ main.pc = "idle"
    /\ trees[t].Built
    /\ LET n == Len(TreeClaimsOf(t))
           numWorkers == NumWorkers(numCPU, n)
       IN  /\ main' = [pc |-> "collect", numCPU |-> numCPU, numWorkers |-> numWorkers,
                       t |-> t, proofs |-> EmptyMap, err |-> FALSE, nilmap |-> FALSE]
           /\ jobs' = [buf |-> <<>>, cap |-> ChannelCapacity(n), closed |-> FALSE]
           /\ results' = [buf |-> <<>>, cap |-> ChannelCapacity(n), closed |-> FALSE]
           /\ workers' = [w \in 1..numWorkers |->
                             [pc |-> "recv", claim |-> AirdropClaim(ZeroAddress, 0, 0)]]
           /\ wg' = numWorkers
           /\ taken' = [i \in 1..n |-> 0]
    /\ sender' = 1
    /\ closer' = "waiting"
    /\ UNCHANGED <<batch, libVars, heapVars, chainVars>>

\* for claim := range jobs: a claim is taken, or the channel is closed and
\* drained and the worker ends (defer wg.Done()).
WorkerReceive(w) ==
    /\ workers[w].pc = "recv"
    /\ \/ /\ Len(jobs.buf) > 0
          /\ workers' = [workers EXCEPT ![w] = [pc |-> "work", claim |-> Head(jobs.buf)]]
          /\ jobs' = [jobs EXCEPT !.buf = Tail(jobs.buf)]
          /\ taken' = [taken EXCEPT ![Head(jobs.buf).Index + 1] = @ + 1]
          /\ UNCHANGED wg
       \/ /\ Len(jobs.buf) = 0 /\ jobs.closed
          /\ workers' = [workers EXCEPT ![w].pc = "done"]
          /\ wg' = wg - 1
          /\ UNCHANGED <<jobs, taken>>
    /\ UNCHANGED <<main, results, sender, closer>>
    /\ UNCHANGED <<batch, libVars, heapVars, chainVars>>

\* proof, err := mt.GenerateProof(claim.Address); results <- proofResult{...}
WorkerSend(w) ==
    /\ workers[w].pc = "work"
    /\ Len(results.buf) < results.cap
    /\ results' = [results EXCEPT !.buf =
                      Append(results.buf,
                             WorkerResult(trees[main.t], TreeClaimsOf(main.t),
                                          workers[w].claim))]
    /\ workers' = [workers EXCEPT ![w].pc = "recv"]
    /\ UNCHANGED <<main, jobs, sender, closer, wg, taken>>
    /\ UNCHANGED <<batch, libVars, heapVars, chainVars>>

\* jobs <- claim, for the claims of mt.Claims in order
SenderSend ==
    /\ sender >= 1 /\ sender <= Len(TreeClaimsOf(main.t))
    /\ Len(jobs.buf) < jobs.cap
    /\ jobs' = [jobs EXCEPT !.buf = Append(jobs.buf, TreeClaimsOf(main.t)[sender])]
    /\ sender' = sender + 1
    /\ UNCHANGED <<main, results, workers, closer, wg, taken>>
    /\ UNCHANGED <<batch, libVars, heapVars, chainVars>>

\* close(jobs)
SenderClose ==
    /\ main.pc # "idle"
    /\ sender = Len(TreeClaimsOf(main.t)) + 1
    /\ jobs' = [jobs EXCEPT !.closed = TRUE]
    /\ sender' = 0
    /\ UNCHANGED <<main, results, workers, closer, wg, taken>>
    /\ UNCHANGED <<batch, libVars, heapVars, chainVars>>

\* wg.Wait(); close(results)
CloserClose ==
    /\ closer = "waiting"
    /\ wg = 0
    /\ results' = [results EXCEPT !.closed = TRUE]
    /\ closer' = "done"
    /\ UNCHANGED <<main, jobs, workers, sender, wg, taken>>
    /\ UNCHANGED <<batch, libVars, heapVars, chainVars>>

\* for result := range results: an error ends the call with (nil, err), a result
\* is stored under its address, and the closed and drained channel ends the call
\* with (proofs, nil).
Collect ==
    /\ main.pc = "collect"
    /\ \/ /\ Len(results.buf) > 0
          /\ LET result == Head(results.buf)
             IN  main' = IF result.Error
                         THEN [main EXCEPT !.pc = "returned", !.err = TRUE,
                                           !.nilmap = TRUE, !.proofs = EmptyMap]
                         ELSE [main EXCEPT !.proofs =
                                   MapPut(main.proofs, result.Address, result.Proof)]
          /\ results' = [results EXCEPT !.buf = Tail(results.buf)]
       \/ /\ Len(results.buf) = 0 /\ results.closed
          /\ main' = [main EXCEPT !.pc = "returned"]
          /\ UNCHANGED results
    /\ UNCHANGED <<jobs, workers, sender, closer, wg, taken>>
    /\ UNCHANGED <<batch, libVars, heapVars, chainVars>>

\* The trees of the pipeline runs: the first n claims of a list of distinct
\* addresses, and lists that repeat an address.
PipeLists ==
    {[i \in 1..n |-> AirdropClaim(Descending(AddrPool)[i], 10 + i, 7)] :
        n \in 1..(IF MaxPipeClaims < Cardinality(AddrPool) THEN MaxPipeClaims
                  ELSE Cardinality(AddrPool))}
    \cup {<<AirdropClaim(AddrOf(2), 1, 0), AirdropClaim(AddrOf(2), 2, 1)>>,
          <<AirdropClaim(AddrOf(2), 1, 0), AirdropClaim(AddrOf(1), 5, 1),
            AirdropClaim(AddrOf(2), 3, 2)>>}

InitPipeline ==
    /\ \E list \in PipeLists :
          \E o \in NewMerkleTree(list, 1) :
              /\ inputs = <<list, <<>>>>
              /\ slices = <<o.claims, <<>>>>
              /\ trees = <<o.tree, NoTree>>
              /\ ret = [op |-> "NewMerkleTree", err |-> o.err, panic |-> o.panic,
                        t |-> 1, s |-> 1, before |-> list]
    /\ PipeIdle
    /\ HeapIdle
    /\ ChainIdle

NextPipeline ==
    \/ \E k \in 1..MaxCPU : GenerateAllProofsStart(1, k)
    \/ \E w \in 1..Len(workers) : WorkerReceive(w)
    \/ \E w \in 1..Len(workers) : WorkerSend(w)
    \/ SenderSend
    \/ SenderClose
    \/ CloserClose
    \/ Collect

SpecPipeline == InitPipeline /\ [][NextPipeline]_vars

\* Trees written as struct literals: &MerkleTree{} has no claims, and
\* &MerkleTree{Claims: claims} has claims and no leaves, so that GenerateProof
\* finds no address.
LiteralTrees ==
    {[Built |-> TRUE, Root |-> Bytes(<<>>), Leaves |-> <<>>, Claims |-> 1]}

InitPipelineLive ==
    \/ InitPipeline
    \/ /\ \E list \in PipeLists \cup {<<>>} :
             /\ inputs = <<list, <<>>>>
             /\ slices = inputs
       /\ \E tree \in LiteralTrees : trees = <<tree, NoTree>>
       /\ ret = [op |-> "none", err |-> FALSE, panic |-> FALSE]
       /\ PipeIdle
       /\ HeapIdle
       /\ ChainIdle

\* A worker with a claim in hand can send as soon as results has room.
WorkerSendEnabled(w) ==
    w <= Len(workers) /\ workers[w].pc = "work" /\ Len(results.buf) < results.cap

\* The Go scheduler runs every goroutine that can take a step.  For WorkerSend
\* weak fairness is written out, with WorkerSendEnabled(w) for
\* ENABLED <<WorkerSend(w)>>_vars.
PipelineFairness ==
    /\ \A w \in 1..MaxCPU :
          /\ WF_vars(w <= Len(workers) /\ WorkerReceive(w))
          /\ \/ []<>~WorkerSendEnabled(w)
             \/ []<><<w <= Len(workers) /\ WorkerSend(w)>>_vars
    /\ WF_vars(SenderSend)
    /\ WF_vars(SenderClose)
    /\ WF_vars(CloserClose)
    /\ WF_vars(Collect)

SpecPipelineLive == InitPipelineLive /\ [][NextPipeline]_vars /\ PipelineFairness

-----------------------------------------------------------------------------
(* GenerateProof and generateProofPath (pkg/merkle/proof.go) on the tree's byte
   slices, by several goroutines at once: leaf i's Hash is the slice bufs[i],
   and every HashInternal call is a step of its own. *)

\* The goroutines inside GenerateProof at the same time.
MaxDerivers == 2

\* A leaf hash with room for a second word behind it.
LeafArraySpare(hash) == <<hash, SpareWord>>

\* The backing array of a leaf's Hash: crypto.Keccak256 returns a slice of
\* exactly one word.
LeafArray(hash) == <<hash>>

DeriverIdle ==
    [pc |-> "idle", address |-> ZeroAddress, nodes |-> <<>>, i |-> 0,
     nextLevel |-> <<>>, currentIndex |-> 0, proof |-> <<>>, index |-> 0,
     err |-> FALSE]

\* mt.GenerateProof(address) up to the first level of generateProofPath: the
\* leaf is looked up, and nodes := mt.Leaves.  The goroutines are numbered in
\* the order they enter.
DeriveStart(g, address) ==
    /\ derivers[g].pc = "idle"
    /\ IF g = 1 THEN TRUE ELSE derivers[g - 1].pc # "idle"
    /\ LET claims == TreeClaimsOf(1)
           found == {k \in 1..Len(trees[1].Leaves) :
                        claims[trees[1].Leaves[k].Data].Address = address}
       IN  derivers' = [derivers EXCEPT ![g] =
               IF found = {}
               THEN [DeriverIdle EXCEPT !.pc = "done", !.address = address,
                                        !.err = TRUE]
               ELSE LET k == CHOOSE x \in found : \A y \in found : x <= y
                    IN  [DeriverIdle EXCEPT
                            !.pc = IF Len(bufs) > 1 THEN "loop" ELSE "done",
                            !.address = address, !.nodes = bufs,
                            !.currentIndex = k - 1, !.index = k - 1]]
    /\ UNCHANGED <<heap, bufs, hashRet, pool, callers>>
    /\ UNCHANGED <<libVars, pipeVars, chainVars>>

\* One pair of the level in generateProofPath: the sibling is added to the
\* proof, parentHash := HashInternal(left.Hash, right.Hash) and the parent is
\* appended to nextLevel; after the last pair the next level begins.
DeriveStep(g) ==
    /\ derivers[g].pc = "loop"
    /\ LET d == derivers[g]
           left == d.nodes[d.i + 1]
           right == IF d.i + 1 < Len(d.nodes) THEN d.nodes[d.i + 2] ELSE left
           hashes == [k \in 1..Len(d.nodes) |-> View(heap, d.nodes[k])]
           proof == d.proof \o PairEntry(hashes, d.i, d.currentIndex)
           r == HashInternalHeap(heap, left, right)
           nextLevel == Append(d.nextLevel, r.out)
       IN  /\ heap' = r.heap
           /\ derivers' = [derivers EXCEPT ![g] =
                  IF r.panic THEN [d EXCEPT !.pc = "panic"]
                  ELSE IF d.i + 2 < Len(d.nodes)
                  THEN [d EXCEPT !.i = d.i + 2, !.proof = proof,
                                 !.nextLevel = nextLevel]
                  ELSE [d EXCEPT !.pc = IF Len(nextLevel) > 1 THEN "loop" ELSE "done",
                                 !.nodes = nextLevel, !.i = 0, !.nextLevel = <<>>,
                                 !.currentIndex = d.currentIndex \div 2,
                                 !.proof = proof]]
    /\ UNCHANGED <<bufs, hashRet, pool, callers>>
    /\ UNCHANGED <<libVars, pipeVars, chainVars>>

\* A tree is built; its leaf hashes are the byte slices bufs[1], bufs[2], ...
InitDerive ==
    /\ \E list \in PipeLists :
          \E o \in NewMerkleTree(list, 1) :
              /\ inputs = <<list, <<>>>>
              /\ slices = <<o.claims, <<>>>>
              /\ trees = <<o.tree, NoTree>>
              /\ ret = [op |-> "NewMerkleTree", err |-> o.err, panic |-> o.panic,
                        t |-> 1, s |-> 1, before |-> list]
              /\ heap = [k \in 1..Len(o.tree.Leaves) |-> LeafArray(o.tree.Leaves[k].Hash)]
              /\ bufs = [k \in 1..Len(o.tree.Leaves) |-> [arr |-> k, len |-> 1]]
    /\ hashRet = [op |-> "none", panic |-> FALSE]
    /\ derivers = [g \in 1..MaxDerivers |-> DeriverIdle]
    /\ pool = [arrays |-> <<>>, free |-> {}]
    /\ callers = <<>>
    /\ PipeIdle
    /\ ChainIdle

NextDerive ==
    \/ \E g \in 1..MaxDerivers : \E a \in AddrPool : DeriveStart(g, a)
    \/ \E g \in 1..MaxDerivers : DeriveStep(g)

SpecDerive == InitDerive /\ [][NextDerive]_vars

-----------------------------------------------------------------------------
(* OptimizedHashLeaf and HashPool (pkg/merkle/optimized.go), statement by
   statement and by several goroutines at once.  A buffer is a backing array of
   PoolCap bytes; the slice header a pool entry points to keeps length 0, since
   the function works on its own copy of the header. *)

\* The goroutines inside OptimizedHashLeaf at the same time.
MaxCallers == 2

\* The capacity of a pooled buffer (128 bytes for the 68 of a leaf).
PoolCap == 2 * WordSize + IndexSize + 3

\* HashPool.Get() that hands out a pooled buffer and leaves it in the pool.
PoolGetShared(p) ==
    {[ptr |-> id, pool |-> p] : id \in p.free}
    \cup {[ptr  |-> Len(p.arrays) + 1,
           pool |-> [p EXCEPT !.arrays = Append(@, Zeros(PoolCap))]]}

\* HashPool.Get(): a buffer of the pool, which leaves the pool, or a new one
\* from New (make([]byte, 0, 128)); sync.Pool may do either when it holds
\* buffers.
PoolGet(p) ==
    {[ptr |-> id, pool |-> [p EXCEPT !.free = @ \ {id}]] : id \in p.free}
    \cup {[ptr  |-> Len(p.arrays) + 1,
           pool |-> [p EXCEPT !.arrays = Append(@, Zeros(PoolCap))]]}

\* HashPool.Put(dataPtr)
PoolPut(p, ptr) == [p EXCEPT !.free = @ \cup {ptr}]

\* data = append(data, b...) within the capacity: the bytes go behind the first
\* len bytes of the array.
AppendInPlace(array, len, b) ==
    [k \in 1..Len(array) |->
        IF k > len /\ k <= len + Len(b) THEN b[k - len] ELSE array[k]]

CallerIdle ==
    [pc |-> "idle", address |-> ZeroAddress, amount |-> 0, index |-> 0,
     ptr |-> 0, len |-> 0, result |-> Bytes(<<>>)]

\* OptimizedHashLeaf(address, amount, index) is entered:
\* dataPtr := HashPool.Get().(*[]byte); data := *dataPtr.  The goroutines are
\* numbered in the order they enter.
OptimizedHashLeafGet(g, address, amount, index) ==
    /\ callers[g].pc = "idle"
    /\ IF g = 1 THEN TRUE ELSE callers[g - 1].pc # "idle"
    /\ \E o \in PoolGet(pool) :
          /\ pool' = o.pool
          /\ callers' = [callers EXCEPT ![g] =
                 [CallerIdle EXCEPT !.pc = "reset", !.address = address,
                                    !.amount = amount, !.index = index,
                                    !.ptr = o.ptr, !.len = 0]]
    /\ UNCHANGED <<heap, bufs, hashRet, derivers>>
    /\ UNCHANGED <<libVars, pipeVars, chainVars>>

\* data = data[:0]
OptimizedHashLeafReset(g) ==
    /\ callers[g].pc = "reset"
    /\ callers' = [callers EXCEPT ![g].pc = "address", ![g].len = 0]
    /\ UNCHANGED <<heap, bufs, hashRet, derivers, pool>>
    /\ UNCHANGED <<libVars, pipeVars, chainVars>>

\* data = append(data, addressBytes...)
OptimizedHashLeafAddress(g) ==
    /\ callers[g].pc = "address"
    /\ LET c == callers[g]
           addressBytes == Zeros(WordSize - AddressLength) \o c.address
       IN  /\ pool' = [pool EXCEPT !.arrays[c.ptr] =
                          AppendInPlace(@, c.len, addressBytes)]
           /\ callers' = [callers EXCEPT ![g].pc = "amount",
                                         ![g].len = c.len + Len(addressBytes)]
    /\ UNCHANGED <<heap, bufs, hashRet, derivers>>
    /\ UNCHANGED <<libVars, pipeVars, chainVars>>

\* amount.FillBytes(amountBytes); data = append(data, amountBytes...), or the
\* panic of FillBytes, on which the deferred HashPool.Put(dataPtr) runs.
OptimizedHashLeafAmount(g) ==
    /\ callers[g].pc = "amount"
    /\ LET c == callers[g]
       IN  IF FillBytesPanics(c.amount, WordSize)
           THEN /\ pool' = PoolPut(pool, c.ptr)
                /\ callers' = [callers EXCEPT ![g].pc = "panic"]
           ELSE /\ pool' = [pool EXCEPT !.arrays[c.ptr] =
                               AppendInPlace(@, c.len, FillBytes(c.amount, WordSize))]
                /\ callers' = [callers EXCEPT ![g].pc = "index",
                                              ![g].len = c.len + WordSize]
    /\ UNCHANGED <<heap, bufs, hashRet, derivers>>
    /\ UNCHANGED <<libVars, pipeVars, chainVars>>

\* binary.BigEndian.PutUint32(indexBytes, index); data = append(data, indexBytes...)
OptimizedHashLeafIndex(g) ==
    /\ callers[g].pc = "index"
    /\ LET c == callers[g]
       IN  /\ pool' = [pool EXCEPT !.arrays[c.ptr] =
                          AppendInPlace(@, c.len, PutUint32(c.index))]
           /\ callers' = [callers EXCEPT ![g].pc = "hash",
                                         ![g].len = c.len + IndexSize]
    /\ UNCHANGED <<heap, bufs, hashRet, derivers>>
    /\ UNCHANGED <<libVars, pipeVars, chainVars>>

\* hash := crypto.Keccak256(data); copy(result, hash)
OptimizedHashLeafHash(g) ==
    /\ callers[g].pc = "hash"
    /\ LET c == callers[g]
           data == SubSeq(pool.arrays[c.ptr], 1, c.len)
       IN  callers' = [callers EXCEPT ![g].pc = "put",
                                      ![g].result = Keccak256(Bytes(data))]
    /\ UNCHANGED <<heap, bufs, hashRet, derivers, pool>>
    /\ UNCHANGED <<libVars, pipeVars, chainVars>>

\* return result, and the deferred HashPool.Put(dataPtr)
OptimizedHashLeafReturn(g) ==
    /\ callers[g].pc = "put"
    /\ pool' = PoolPut(pool, callers[g].ptr)
    /\ callers' = [callers EXCEPT ![g].pc = "done"]
    /\ UNCHANGED <<heap, bufs, hashRet, derivers>>
    /\ UNCHANGED <<libVars, pipeVars, chainVars>>

\* The arguments of the calls.
PoolArgs ==
    {AirdropClaim(a, m, x) :
        a \in {AddrOf(1), AddrOf(164)}, m \in {1, 0 - 258, Pow256(WordSize)},
        x \in {0, 1}}

InitPool ==
    /\ pool = [arrays |-> <<>>, free |-> {}]
    /\ callers = [g \in 1..MaxCallers |-> CallerIdle]
    /\ heap = <<>>
    /\ bufs = <<>>
    /\ hashRet = [op |-> "none", panic |-> FALSE]
    /\ derivers = <<>>
    /\ inputs = <<<<>>, <<>>>>
    /\ slices = inputs
    /\ trees = [t \in TreeIds |-> NoTree]
    /\ ret = [op |-> "none", err |-> FALSE, panic |-> FALSE]
    /\ PipeIdle
    /\ ChainIdle

NextPool ==
    \/ \E g \in 1..MaxCallers : \E c \in PoolArgs :
          OptimizedHashLeafGet(g, c.Address, c.Amount, c.Index)
    \/ \E g \in 1..MaxCallers : OptimizedHashLeafReset(g)
    \/ \E g \in 1..MaxCallers : OptimizedHashLeafAddress(g)
    \/ \E g \in 1..MaxCallers : OptimizedHashLeafAmount(g)
    \/ \E g \in 1..MaxCallers : OptimizedHashLeafIndex(g)
    \/ \E g \in 1..MaxCallers : OptimizedHashLeafHash(g)
    \/ \E g \in 1..MaxCallers : OptimizedHashLeafReturn(g)

SpecPool == InitPool /\ [][NextPool]_vars

-----------------------------------------------------------------------------
(* BatchProcessor.ProcessClaims (pkg/merkle/optimized.go), goroutine by
   goroutine.  The claims are the positions 0..n-1, a batch claims[lo:hi] is
   [lo, hi], an error value is a positive number and nil is 0; batch.calls is
   the list of the processFn invocations in the order they began, each with
   what it returned (Running until it has). *)

\* A processFn invocation that has not returned yet.
Running == 0 - 1

\* Largest len(claims), BatchSize and Workers of a ProcessClaims call.
MaxBatchClaims == 3
MaxBatchSize == 2
MaxBatchWorkers == 2

\* wg.Wait() that returns at once.
WaitReturnsAtOnce(counter) == TRUE

\* wg.Wait() returns when the counter is zero.
WaitReturns(counter) == counter = 0

\* bp.ProcessClaims(claims, processFn) with len(claims) = n on
\* NewBatchProcessor(batchSize, nWorkers): the two channels, the workers
\* (wg.Add(1) each), the sender and the closer are set up.
ProcessClaimsStart(n, batchSize, nWorkers) ==
    /\ main.pc = "idle"
    /\ batch' = [n |-> n, BatchSize |-> batchSize, Workers |-> nWorkers,
                 calls |-> <<>>]
    /\ main' = [pc |-> "collect", ret |-> 0, seen |-> <<>>]
    /\ jobs' = [buf |-> <<>>, cap |-> nWorkers, closed |-> FALSE]
    /\ results' = [buf |-> <<>>, cap |-> nWorkers, closed |-> FALSE]
    /\ workers' = [w \in 1..nWorkers |->
                      [pc |-> "recv", lo |-> 0, hi |-> 0, call |-> 0, result |-> 0]]
    /\ wg' = nWorkers
    /\ sender' = [pc |-> "send", i |-> 0]
    /\ closer' = "waiting"
    /\ UNCHANGED taken
    /\ UNCHANGED <<libVars, heapVars, chainVars>>

\* for batch := range jobs: a batch is taken and processFn(batch) is called, or
\* the channel is closed and drained and the worker ends (defer wg.Done()).
BatchWorkerReceive(w) ==
    /\ workers[w].pc = "recv"
    /\ \/ /\ Len(jobs.buf) > 0
          /\ workers' = [workers EXCEPT ![w] =
                            [pc |-> "work", lo |-> Head(jobs.buf).lo,
                             hi |-> Head(jobs.buf).hi, call |-> Len(batch.calls) + 1,
                             result |-> 0]]
          /\ jobs' = [jobs EXCEPT !.buf = Tail(jobs.buf)]
          /\ batch' = [batch EXCEPT !.calls =
                          Append(@, [lo |-> Head(jobs.buf).lo, hi |-> Head(jobs.buf).hi,
                                     out |-> Running])]
          /\ UNCHANGED wg
       \/ /\ Len(jobs.buf) = 0 /\ jobs.closed
          /\ workers' = [workers EXCEPT ![w].pc = "done"]
          /\ wg' = wg - 1
          /\ UNCHANGED <<jobs, batch>>
    /\ UNCHANGED <<main, results, sender, closer, taken>>
    /\ UNCHANGED <<libVars, heapVars, chainVars>>

\* processFn(batch) returns nil or an error of its own.
BatchWorkerProcess(w) ==
    /\ workers[w].pc = "work"
    /\ \E err \in {0, workers[w].lo + 1} :
          /\ workers' = [workers EXCEPT ![w].pc = "send", ![w].result = err]
          /\ batch' = [batch EXCEPT !.calls[workers[w].call].out = err]
    /\ UNCHANGED <<main, jobs, results, sender, closer, wg, taken>>
    /\ UNCHANGED <<libVars, heapVars, chainVars>>

\* results <- processFn(batch)
BatchWorkerSend(w) ==
    /\ workers[w].pc = "send"
    /\ Len(results.buf) < results.cap
    /\ results' = [results EXCEPT !.buf = Append(results.buf, workers[w].result)]
    /\ workers' = [workers EXCEPT ![w].pc = "recv"]
    /\ UNCHANGED <<main, jobs, sender, closer, wg, taken, batch>>
    /\ UNCHANGED <<libVars, heapVars, chainVars>>

\* jobs <- claims[i:end]; i += bp.BatchSize
BatchSenderSend ==
    /\ sender.pc = "send"
    /\ sender.i < batch.n
    /\ Len(jobs.buf) < jobs.cap
    /\ LET end == IF sender.i + batch.BatchSize > batch.n THEN batch.n
                  ELSE sender.i + batch.BatchSize
       IN  jobs' = [jobs EXCEPT !.buf = Append(jobs.buf, [lo |-> sender.i, hi |-> end])]
    /\ sender' = [sender EXCEPT !.i = sender.i + batch.BatchSize]
    /\ UNCHANGED <<main, results, workers, closer, wg, taken, batch>>
    /\ UNCHANGED <<libVars, heapVars, chainVars>>

\* the loop is over: the deferred close(jobs)
BatchSenderClose ==
    /\ sender.pc = "send"
    /\ sender.i >= batch.n
    /\ jobs' = [jobs EXCEPT !.closed = TRUE]
    /\ sender' = [sender EXCEPT !.pc = "done"]
    /\ UNCHANGED <<main, results, workers, closer, wg, taken, batch>>
    /\ UNCHANGED <<libVars, heapVars, chainVars>>

\* wg.Wait(); close(results)
BatchCloserClose ==
    /\ closer = "waiting"
    /\ WaitReturns(wg)
    /\ results' = [results EXCEPT !.closed = TRUE]
    /\ closer' = "done"
    /\ UNCHANGED <<main, jobs, workers, sender, wg, taken, batch>>
    /\ UNCHANGED <<libVars, heapVars, chainVars>>

\* for err := range results: the first non-nil error is returned, and the closed
\* and drained channel ends the call with nil.  main.seen is batch.calls as it
\* was when the call returned.
BatchCollect ==
    /\ main.pc = "collect"
    /\ \/ /\ Len(results.buf) > 0
          /\ main' = IF Head(results.buf) # 0
                     THEN [pc |-> "returned", ret |-> Head(results.buf),
                           seen |-> batch.calls]
                     ELSE main
          /\ results' = [results EXCEPT !.buf = Tail(results.buf)]
       \/ /\ Len(results.buf) = 0 /\ results.closed
          /\ main' = [pc |-> "returned", ret |-> 0, seen |-> batch.calls]
          /\ UNCHANGED results
    /\ UNCHANGED <<jobs, workers, sender, closer, wg, taken, batch>>
    /\ UNCHANGED <<libVars, heapVars, chainVars>>

InitBatch ==
    /\ inputs = <<<<>>, <<>>>>
    /\ slices = inputs
    /\ trees = [t \in TreeIds |-> NoTree]
    /\ ret = [op |-> "none", err |-> FALSE, panic |-> FALSE]
    /\ main = [pc |-> "idle", ret |-> 0, seen |-> <<>>]
    /\ jobs = [buf |-> <<>>, cap |-> 0, closed |-> FALSE]
    /\ results = [buf |-> <<>>, cap |-> 0, closed |-> FALSE]
    /\ workers = <<>>
    /\ sender = [pc |-> "none", i |-> 0]
    /\ closer = "none"
    /\ wg = 0
    /\ taken = <<>>
    /\ batch = [n |-> 0, BatchSize |-> 0, Workers |-> 0, calls |-> <<>>]
    /\ HeapIdle
    /\ ChainIdle

NextBatch ==
    \/ \E n \in 0..MaxBatchClaims, batchSize \in 1..MaxBatchSize,
          nWorkers \in 0..MaxBatchWorkers : ProcessClaimsStart(n, batchSize, nWorkers)
    \/ \E w \in 1..Len(workers) : BatchWorkerReceive(w)
    \/ \E w \in 1..Len(workers) : BatchWorkerProcess(w)
    \/ \E w \in 1..Len(workers) : BatchWorkerSend(w)
    \/ BatchSenderSend
    \/ BatchSenderClose
    \/ BatchCloserClose
    \/ BatchCollect

SpecBatch == InitBatch /\ [][NextBatch]_vars

\* The Go scheduler runs every goroutine that can take a step, and processFn
\* returns.
BatchFairness ==
    /\ \A w \in 1..MaxBatchWorkers :
          /\ WF_vars(w <= Len(workers) /\ BatchWorkerReceive(w))
          /\ WF_vars(w <= Len(workers) /\ BatchWorkerProcess(w))
          /\ WF_vars(w <= Len(workers) /\ BatchWorkerSend(w))
    /\ WF_vars(BatchSenderSend)
    /\ WF_vars(BatchSenderClose)
    /\ WF_vars(BatchCloserClose)
    /\ WF_vars(BatchCollect)

SpecBatchLive == SpecBatch /\ BatchFairness

-----------------------------------------------------------------------------
(* A caller that keeps using the claim slice it handed to NewMerkleTree. *)

\* What one statement of the caller makes of its slice: the first claim's
\* amount assigned, the last claim's address assigned
\* (claims[1].Address = claims[0].Address), or the first and last claim swapped.
SliceWrites(claims) ==
    LET n == Len(claims)
    IN  {[claims EXCEPT ![1].Amount = 5],
         [claims EXCEPT ![n].Address = claims[1].Address],
         [claims EXCEPT ![1] = claims[n], ![n] = claims[1]]}

\* One such statement, between the caller's two NewMerkleTree calls.
SliceWriteCall(s) ==
    /\ ~Crashed
    /\ trees[1].Built /\ ~trees[2].Built
    /\ \E c \in SliceWrites(slices[s]) \ {slices[s]} :
          /\ slices' = [slices EXCEPT ![s] = c]
          /\ ret' = [op |-> "write", err |-> FALSE, panic |-> FALSE, s |-> s,
                     before |-> slices[s]]
    /\ UNCHANGED <<inputs, trees>>
    /\ UNCHANGED <<pipeVars, heapVars, chainVars>>

InitAlias ==
    /\ \E list \in PipeLists : slices = <<list, <<>>>>
    /\ inputs = slices
    /\ trees = [t \in TreeIds |-> NoTree]
    /\ ret = [op |-> "none", err |-> FALSE, panic |-> FALSE]
    /\ PipeIdle
    /\ HeapIdle
    /\ ChainIdle

\* The caller builds a tree from its slice, goes on writing to the slice, asks
\* for proofs, and builds a second tree from the same slice.
NextAlias ==
    \/ NewMerkleTreeCall(1, 1)
    \/ trees[1].Built /\ NewMerkleTreeCall(2, 1)
    \/ SliceWriteCall(1)
    \/ \E a \in AddrPool : GenerateProofCall(1, a)

SpecAlias == InitAlias /\ [][NextAlias]_vars

Next ==
    \/ \E s \in SliceIds : ValidateClaimsDataCall(s)
    \/ \E ts \in {<<1, 1>>, <<2, 1>>, <<2, 2>>} : NewMerkleTreeCall(ts[1], ts[2])

Spec == Init /\ [][Next]_vars

-----------------------------------------------------------------------------
(* The claims *)

DistinctAddresses(claims) ==
    \A i, j \in 1..Len(claims) : i # j => claims[i].Address # claims[j].Address

AmountsInRange(claims) ==
    \A i \in 1..Len(claims) :
        claims[i].Amount >= 1 /\ claims[i].Amount < Pow256(WordSize)

\* C1: round trip.  For every tree NewMerkleTree built from a list of pairwise
\* distinct addresses with amounts in [1, 2^256), of any size, and every claim c
\* of it, GenerateProof(c.Address) succeeds and verifyProof of that proof, c and
\* the tree's root hash returns true without panicking; and every verifyProof
\* call made with an untampered claim and proof of such a tree returned true.
C1_RoundTrip ==
    /\ \A t \in TreeIds :
          (trees[t].Built /\ DistinctAddresses(TreeClaimsOf(t))
             /\ AmountsInRange(TreeClaimsOf(t)))
          => \A i \in 1..Len(TreeClaimsOf(t)) :
                LET c == TreeClaimsOf(t)[i]
                    g == GenerateProof(trees[t], TreeClaimsOf(t), c.Address)
                    v == verifyProof(g.Proof, c, GetRootHash(trees[t]))
                IN  ~g.err /\ ~v.panic /\ v.result
    /\ (ret.op = "verifyProof" /\ ret.kind = "none"
          /\ DistinctAddresses(TreeClaimsOf(ret.t)) /\ AmountsInRange(TreeClaimsOf(ret.t)))
       => (ret.result /\ ~ret.panic)

\* A verified proof of the unpaired last leaf of a five-claim tree (odd levels of
\* five and three nodes).
C1_Witness ==
    /\ ret.op = "verifyProof" /\ ret.kind = "none" /\ ret.result
    /\ Len(TreeClaimsOf(ret.t)) = 5
    /\ ret.claim.Index = 4
    /\ Len(ret.proof) = 3
    /\ ret.proof[1] = SprintfHex(trees[ret.t].Leaves[5].Hash)

\* C9 as stated: a verifyProof call in which the address, the amount (another
\* value of [0, 2^256)), the index or one sibling hash was changed returns false.
C9_TamperFails ==
    (ret.op = "verifyProof" /\ ret.kind \in {"address", "amount", "index", "sibling"})
    => ~ret.result

Addresses(claims) == [i \in 1..Len(claims) |-> claims[i].Address]

\* C2: determinism.  Any two trees NewMerkleTree built from lists that are
\* permutations of the same claims with pairwise distinct addresses (whatever the
\* incoming Index values) have the same root hash and give, for every address,
\* the same GenerateProof result (siblings, index, amount).
C2_Determinism ==
    \A t1, t2 \in TreeIds :
        (t1 < t2 /\ trees[t1].Built /\ trees[t2].Built
           /\ DistinctAddresses(TreeClaimsOf(t1)))
        => /\ GetRootHash(trees[t1]) = GetRootHash(trees[t2])
           /\ \A a \in AddrPool \cup {ZeroAddress} :
                 GenerateProof(trees[t1], TreeClaimsOf(t1), a)
                 = GenerateProof(trees[t2], TreeClaimsOf(t2), a)

\* Two trees built from five claims handed in in two different orders.
C2_Witness ==
    /\ trees[1].Built /\ trees[2].Built
    /\ trees[1].Claims # trees[2].Claims
    /\ Len(inputs[1]) = 5 /\ DistinctAddresses(inputs[1])
    /\ Addresses(inputs[1]) # Addresses(inputs[2])
    /\ inputs[2][1].Index = 7

ValidList(claims) ==
    /\ Len(claims) > 0
    /\ DistinctAddresses(claims)
    /\ \A i \in 1..Len(claims) :
          claims[i].Amount > 0 /\ claims[i].Address # ZeroAddress

\* C5 as stated: NewMerkleTree returns an error and no tree for a list that is
\* empty or holds an amount <= 0, the zero address or a repeated address; a tree
\* exists only for a list that passes the four checks.
C5_RejectsInvalid ==
    (ret.op = "NewMerkleTree" /\ ~ValidList(ret.before))
    => (ret.err /\ ~trees[ret.t].Built)

\* C6: ValidateClaimsData returns nil exactly when the list is non-empty, its
\* addresses are pairwise distinct, every amount is > 0 and no address is the
\* zero address, and an error otherwise; the list is as it was before the call.
C6_ValidateExact ==
    ret.op = "ValidateClaimsData"
    => /\ (ret.error = "nil") <=> ValidList(ret.before)
       /\ ret.err <=> ~ValidList(ret.before)
       /\ slices[ret.s] = ret.before

\* A rejected list whose only defect is the zero address.
C6_Witness ==
    /\ ret.op = "ValidateClaimsData"
    /\ ret.error = "zero address"
    /\ Len(ret.before) = 2
    /\ DistinctAddresses(ret.before)
    /\ \A i \in 1..2 : ret.before[i].Amount > 0

\* a before b as unsigned big-endian byte strings.
AddressBytesLess(a, b) == LexLess(a, b)

\* C7 as stated: after NewMerkleTree the tree's claims (and its leaves, in the
\* same order) are strictly ascending by byte comparison of the addresses.
C7_ByteOrder ==
    \A t \in TreeIds :
        (trees[t].Built /\ DistinctAddresses(TreeClaimsOf(t)))
        => \A i \in 1..(Len(TreeClaimsOf(t)) - 1) :
              /\ AddressBytesLess(TreeClaimsOf(t)[i].Address, TreeClaimsOf(t)[i + 1].Address)
              /\ trees[t].Leaves[i].Data = i

\* The map a loop over the first n claims of tree t builds with one
\* GenerateProof call per claim.
RECURSIVE SequentialProofs(_, _)
SequentialProofs(t, n) ==
    IF n = 0 THEN EmptyMap
    ELSE MapPut(SequentialProofs(t, n - 1), Hex(TreeClaimsOf(t)[n].Address),
                GenerateProof(trees[t], TreeClaimsOf(t), TreeClaimsOf(t)[n].Address))

\* C3: pipeline equivalence.  Whatever the number of workers and the order in
\* which the goroutines run, every entry GenerateAllProofs has stored is the
\* entry of the sequential map, and the map it returns is the sequential map,
\* with a nil error.
C3_PipelineEquivalence ==
    main.pc # "idle" =>
        LET seq == SequentialProofs(main.t, Len(TreeClaimsOf(main.t)))
        IN  /\ \A k \in DOMAIN main.proofs :
                  k \in DOMAIN seq /\ main.proofs[k] = seq[k]
            /\ main.pc = "returned"
               => (~main.err /\ ~main.nilmap /\ main.proofs = seq)

\* A call on a three-claim tree that ran two workers and returned three proofs.
C3_Witness ==
    /\ main.pc = "returned"
    /\ main.numWorkers = 2
    /\ Len(TreeClaimsOf(main.t)) = 3
    /\ Cardinality(DOMAIN main.proofs) = 3

\* C4 as stated: GenerateAllProofs on a tree NewMerkleTree returned ends with a
\* nil error and a map of exactly len(tree.Claims) entries, or with an error and
\* a nil map.
C4_AllOrNothing ==
    main.pc = "returned" =>
        \/ /\ ~main.err /\ ~main.nilmap
           /\ Cardinality(DOMAIN main.proofs) = Len(TreeClaimsOf(main.t))
        \/ main.err /\ main.nilmap

\* C8: HashInternal(a, b) on two 32-byte slices is Keccak256 of the byte-wise
\* smaller hash followed by the larger (Keccak256(a || a) for a = b), the same
\* in both argument orders, and every slice in scope, the two arguments
\* included, shows the same bytes after the call as before.
C8_SortedPair ==
    hashRet.op = "HashInternal" =>
        LET h == hashRet.before
            l == bufs[hashRet.left]
            r == bufs[hashRet.right]
            a == View(h, l)
            b == View(h, r)
            lo == IF LexLess(b.code, a.code) THEN b ELSE a
            hi == IF LexLess(b.code, a.code) THEN a ELSE b
        IN  (a.len = WordSize /\ b.len = WordSize) =>
                /\ ~hashRet.panic
                /\ View(heap, bufs[Len(bufs)]) = Keccak256(Cat(lo, hi))
                /\ LET swapped == HashInternalHeap(h, r, l)
                   IN  View(swapped.heap, swapped.out) = View(heap, bufs[Len(bufs)])
                /\ HashInternal(a, b) = View(heap, bufs[Len(bufs)])
                /\ HashInternal(b, a) = View(heap, bufs[Len(bufs)])
                /\ \A k \in 1..(Len(bufs) - 1) : View(heap, bufs[k]) = View(h, bufs[k])

\* A call that appended in place: the right argument is the smaller hash and
\* has spare capacity, which now holds the left argument's bytes.
C8_Witness ==
    /\ hashRet.op = "HashInternal" /\ ~hashRet.panic
    /\ hashRet.left # hashRet.right
    /\ LET h == hashRet.before
           l == bufs[hashRet.left]
           r == bufs[hashRet.right]
       IN  /\ LexLess(View(h, r).code, View(h, l).code)
           /\ Len(h[r.arr]) >= 2
           /\ h[r.arr][2] = SpareWord
           /\ heap[r.arr][2] = View(h, l)

\* C10: whenever claim() gets as far as the proof check with the index, address,
\* amount and proof the builder produced for a claim of the tree whose root the
\* contract holds, the leaf the contract computes is the builder's HashLeaf and
\* the proof check passes.
C10_LeafAgreement ==
    (/\ txn.op = "claim"
     /\ merkleRoot = trees[1].Root
     /\ txn.call.kind = "builder"
     /\ txn.reason \notin {"Claim period ended", "Already claimed",
                           "Can only claim for yourself"})
    => /\ ContractLeaf(txn.call.index, txn.call.account, txn.call.amount)
            = HashLeaf(txn.call.account, txn.call.amount, txn.call.index)
       /\ txn.reason # "Invalid merkle proof"

\* C11 as stated: NewMerkleTree on a list holding an amount that does not fit in
\* 256 bits returns an error to the caller, builds no tree and does not crash.
C11_OverflowIsError ==
    (/\ ret.op = "NewMerkleTree"
     /\ \E i \in 1..Len(ret.before) : ret.before[i].Amount >= Pow256(WordSize))
    => (ret.err /\ ~ret.panic /\ ~trees[ret.t].Built)

\* C12 as stated: for every claim of a built tree, GenerateProof of its address
\* succeeds and returns the claim's position in the tree's sorted claim
\* sequence, which is the Index stored there, and the decimal string of the
\* claim's amount.
C12_ProofPayload ==
    \A t \in TreeIds :
        trees[t].Built =>
            \A i \in 1..Len(TreeClaimsOf(t)) :
                LET c == TreeClaimsOf(t)[i]
                    g == GenerateProof(trees[t], TreeClaimsOf(t), c.Address)
                IN  /\ ~g.err
                    /\ g.Index = i - 1
                    /\ c.Index = i - 1
                    /\ g.Amount = String(c.Amount)

\* C13: GenerateProof returns an error and a nil proof exactly when no claim of
\* the tree has the address, and a proof only for an address the tree holds; the
\* call leaves the tree and its claims as they were.
C13_AddressNotFound ==
    /\ [](ret.op = "GenerateProof" =>
            LET present == \E i \in 1..Len(TreeClaimsOf(ret.t)) :
                              TreeClaimsOf(ret.t)[i].Address = ret.address
            IN  /\ ret.err <=> ~present
                /\ ret.err => ret.proof = [err |-> TRUE, Proof |-> <<>>, Index |-> 0,
                                           Amount |-> Bytes(<<>>)])
    /\ [][ret'.op = "GenerateProof" => (trees' = trees /\ slices' = slices)]_vars

\* A call for an address that is not among the three claims of the tree.
C13_Witness ==
    /\ ret.op = "GenerateProof" /\ ret.err
    /\ Len(TreeClaimsOf(ret.t)) = 3
    /\ ret.address # ZeroAddress

\* A proof entry that is "0x" followed by the hex digits of one 32-byte hash.
WellFormedEntry(e) ==
    /\ e.len = 2 + 2 * WordSize
    /\ ~DecodeStringFails(DropPrefix(e))

\* C14 as stated: verifyProof fails (panics) only when some proof entry is not a
\* 32-byte hash; with well-formed entries it returns a boolean whatever the
\* claim and the root are, false for a mismatch.
C14_VerifierOutcome ==
    (ret.op = "verifyProof" /\ ret.panic)
    => \E k \in 1..Len(ret.proof) : ~WellFormedEntry(ret.proof[k])

\* C15: claim at most once.  Over every sequence of claim, updateDeadline and
\* withdrawUnclaimed calls, every account has at most one successful claim and
\* its flag is set exactly when it has one; a flag never goes back to false; and
\* a claim for an account whose flag is set is rejected.
C15_ClaimOnce ==
    /\ [](\A a \in ChainAccounts :
             claimCount[a] <= 1 /\ (claimed[a] <=> claimCount[a] = 1))
    /\ []((txn.op = "claim" /\ txn.wasClaimed) => txn.reverted)
    /\ [][\A a \in ChainAccounts : claimed[a] => claimed'[a]]_vars

\* A second claim by an account that claimed before, with a valid proof and
\* before the deadline, rejected for the flag alone.
C15_Witness ==
    /\ txn.op = "claim" /\ txn.reason = "Already claimed"
    /\ txn.msgSender = txn.call.account
    /\ txn.proofOk
    /\ claimCount[txn.call.account] = 1

\* C16: claim is rejected when the deadline has passed, the account has claimed,
\* the caller is not the account, the proof does not fold to merkleRoot or the
\* token transfer fails, and after a rejected claim claimed, totalClaimed and the
\* token balances are what they were before the call.
C16_RejectedUnchanged ==
    txn.op = "claim" =>
        /\ (\/ txn.time > txn.deadline
            \/ txn.wasClaimed
            \/ txn.msgSender # txn.call.account
            \/ ~txn.proofOk
            \/ txn.before.balances[ContractAddress] < txn.call.amount)
           => txn.reverted
        /\ txn.reverted => /\ claimed = txn.before.claimed
                           /\ totalClaimed = txn.before.totalClaimed
                           /\ balances = txn.before.balances

\* A claim that got as far as the token transfer, which failed, after other
\* accounts had claimed.
C16_Witness ==
    /\ txn.op = "claim" /\ txn.reason = "Transfer failed"
    /\ totalClaimed > 0
    /\ ~claimed[txn.call.account]

\* Keccak256 of two hashes, the byte-wise smaller one first.
SortedPairHash(a, b) ==
    IF LexLess(b.code, a.code) THEN Keccak256(Cat(b, a)) ELSE Keccak256(Cat(a, b))

\* The bottom-up fold: positions (0,1), (2,3), ... paired, the last hash of an
\* odd level paired with itself, until one hash remains.
RECURSIVE BottomUpFold(_)
BottomUpFold(hashes) ==
    IF Len(hashes) = 1 THEN hashes[1]
    ELSE BottomUpFold([k \in 1..((Len(hashes) + 1) \div 2) |->
                          SortedPairHash(hashes[2 * k - 1],
                                         IF 2 * k <= Len(hashes) THEN hashes[2 * k]
                                         ELSE hashes[2 * k - 1])])

\* C17: root construction.  The root of every tree NewMerkleTree built is the
\* bottom-up fold of its leaf hashes, which on return are the HashLeaf of the
\* sorted, re-indexed claims in order; for one claim the root is the leaf hash.
C17_RootConstruction ==
    /\ \A t \in TreeIds :
          trees[t].Built =>
              /\ trees[t].Root = BottomUpFold(LeafHashes(trees[t]))
              /\ Len(trees[t].Leaves) = 1 => trees[t].Root = trees[t].Leaves[1].Hash
    /\ (ret.op = "NewMerkleTree" /\ ~ret.err /\ ~ret.panic) =>
          /\ Len(trees[ret.t].Leaves) = Len(slices[ret.s])
          /\ \A i \in 1..Len(slices[ret.s]) :
                trees[ret.t].Leaves[i].Hash
                = HashLeaf(slices[ret.s][i].Address, slices[ret.s][i].Amount, i - 1)

\* A tree of five claims just built: levels of five, three, two and one node.
C17_Witness ==
    /\ ret.op = "NewMerkleTree" /\ ~ret.err /\ ~ret.panic
    /\ Len(trees[ret.t].Leaves) = 5

\* The hashes one level above hashes.
PairUp(hashes) ==
    [k \in 1..((Len(hashes) + 1) \div 2) |->
        SortedPairHash(hashes[2 * k - 1],
                       IF 2 * k <= Len(hashes) THEN hashes[2 * k] ELSE hashes[2 * k - 1])]

\* One sibling per level with more than one node: the hash at position
\* target XOR 1, or the target's own hash when that position does not exist;
\* then the same one level up for target / 2.
RECURSIVE SiblingPath(_, _)
SiblingPath(hashes, target) ==
    IF Len(hashes) <= 1 THEN <<>>
    ELSE LET other == IF target % 2 = 0 THEN target + 1 ELSE target - 1
             sibling == IF other < Len(hashes) THEN hashes[other + 1]
                        ELSE hashes[target + 1]
         IN  <<SprintfHex(sibling)>> \o SiblingPath(PairUp(hashes), target \div 2)

\* C18: sibling selection.  For every leaf of every built tree generateProofPath
\* returns one sibling per level that has more than one node, the hash at
\* position target XOR 1 or the target's own hash for the unpaired last node,
\* the target halved from level to level; GenerateProof returns that path; for
\* two claims the proofs are [L1] for claim 0 and [L0] for claim 1.
C18_SiblingSelection ==
    /\ trees[1].Built =>
          LET hashes == LeafHashes(trees[1])
          IN  /\ \A i \in 1..Len(hashes) :
                    generateProofPath(hashes, i - 1) = SiblingPath(hashes, i - 1)
              /\ Len(hashes) = 2 =>
                    /\ generateProofPath(hashes, 0) = <<SprintfHex(hashes[2])>>
                    /\ generateProofPath(hashes, 1) = <<SprintfHex(hashes[1])>>
    /\ (ret.op = "GenerateProof" /\ ~ret.err) =>
          ret.proof.Proof = SiblingPath(LeafHashes(trees[ret.t]), ret.proof.Index)

\* The proof of the third of three claims: its own hash, then the hash of the
\* first pair.
C18_Witness ==
    /\ ret.op = "GenerateProof" /\ ~ret.err
    /\ Len(trees[ret.t].Leaves) = 3
    /\ ret.proof.Index = 2
    /\ ret.proof.Proof[1] = SprintfHex(trees[ret.t].Leaves[3].Hash)
    /\ Len(ret.proof.Proof) = 2

\* ceil(log2(n)): the least h with 2^h >= n.
CeilLog2(n) == CHOOSE h \in 0..n : 2 ^ h >= n /\ \A k \in 0..(h - 1) : 2 ^ k < n

\* C19: height.  In a tree of n claims every proof has ceil(log2(n)) siblings (0
\* for n = 1), every leaf lies that many parent links below the root, and
\* calculateTreeHeight(n) and calculateTreeDepth(n) report that number.
C19_Height ==
    /\ trees[1].Built =>
          LET hashes == LeafHashes(trees[1])
              n == Len(hashes)
          IN  /\ \A i \in 1..n : Len(generateProofPath(hashes, i - 1)) = CeilLog2(n)
              /\ buildTreeDepth(hashes) = CeilLog2(n)
              /\ calculateTreeHeight(n) = CeilLog2(n)
              /\ calculateTreeDepth(n) = CeilLog2(n)
    /\ (ret.op = "GenerateProof" /\ ~ret.err) =>
          Len(ret.proof.Proof) = CeilLog2(Len(trees[ret.t].Leaves))

\* A proof of three siblings from a tree of five claims.
C19_Witness ==
    /\ ret.op = "GenerateProof" /\ ~ret.err
    /\ Len(trees[ret.t].Leaves) = 5
    /\ Len(ret.proof.Proof) = 3
    /\ calculateTreeHeight(5) = 3

\* The workers that hold a claim and have not sent its result yet.
Deriving == {w \in 1..Len(workers) : workers[w].pc = "work"}

\* C20: bounded parallelism.  GenerateAllProofs starts min(NumCPU, len(Claims))
\* workers, never more than that many derive a proof at the same time, no claim
\* of the tree is received from jobs more than once (a claim was received once
\* when it was sent and is no longer in the queue, and not at all otherwise),
\* and when the workers have ended (and so when the call returns) every claim
\* was received exactly once.
C20_BoundedParallelism ==
    main.pc # "idle" =>
        LET n == Len(TreeClaimsOf(main.t))
            bound == IF main.numCPU < n THEN main.numCPU ELSE n
        IN  /\ Len(workers) = bound
            /\ main.numWorkers = bound
            /\ Cardinality(Deriving) <= bound
            /\ \A i \in 1..n : taken[i] <= 1
            /\ \A i \in 1..n :
                  taken[i] = (IF sender = 0 \/ i < sender THEN 1 ELSE 0)
                             - Cardinality({k \in 1..Len(jobs.buf) :
                                               jobs.buf[k].Index + 1 = i})
            /\ ((\A w \in 1..Len(workers) : workers[w].pc = "done")
                \/ main.pc = "returned")
               => \A i \in 1..n : taken[i] = 1

\* Two workers deriving at the same time on a tree of three claims, NumCPU
\* being 2, with the third claim still in the queue.
C20_Witness ==
    /\ main.pc = "collect"
    /\ main.numCPU = 2
    /\ Len(TreeClaimsOf(main.t)) = 3
    /\ Cardinality(Deriving) = 2
    /\ Len(jobs.buf) = 1


\* C21: proof derivation only reads the tree.  However the GenerateProof calls
\* of several goroutines interleave, no step changes Root, Leaves, Claims, the
\* claims or the backing array of a leaf hash (HashInternal's append never
\* writes into its arguments' arrays), and every call that has returned
\* returned what GenerateProof returns on the tree as it was built.
C21_ReadOnlyTree ==
    /\ [][/\ trees' = trees
          /\ slices' = slices
          /\ bufs' = bufs
          /\ \A k \in 1..Len(bufs) : heap'[bufs[k].arr] = heap[bufs[k].arr]]_vars
    /\ [](\A g \in 1..Len(derivers) :
             /\ derivers[g].pc # "panic"
             /\ derivers[g].pc = "done" =>
                   LET p == GenerateProof(trees[1], TreeClaimsOf(1), derivers[g].address)
                   IN  /\ derivers[g].err = p.err
                       /\ derivers[g].proof = p.Proof
                       /\ derivers[g].index = p.Index)
    /\ [](\A k \in 1..Len(bufs) :
             View(heap, bufs[k]) = trees[1].Leaves[k].Hash)

\* Two goroutines are inside generateProofPath of a three-leaf tree at once,
\* each after its first HashInternal call on the leaf hashes.
C21_Witness ==
    /\ Len(bufs) = 3
    /\ Len(derivers) = 2
    /\ \A g \in 1..Len(derivers) : derivers[g].pc = "loop" /\ derivers[g].i = 2


\* C22: a tree is immutable once NewMerkleTree has returned it.  No later step
\* (the caller writing to the slice it passed in, or passing the slice to
\* NewMerkleTree again) changes the tree's Claims, the claim a leaf carries, or
\* the proof the tree produces for any address.
C22_TreeImmutable ==
    [][trees[1].Built =>
          /\ trees'[1] = trees[1]
          /\ slices'[trees'[1].Claims] = slices[trees[1].Claims]
          /\ \A k \in 1..Len(trees[1].Leaves) :
                slices'[trees'[1].Claims][trees'[1].Leaves[k].Data]
                    = slices[trees[1].Claims][trees[1].Leaves[k].Data]
          /\ \A a \in AddrPool :
                GenerateProof(trees'[1], slices'[trees'[1].Claims], a)
                    = GenerateProof(trees[1], slices[trees[1].Claims], a)]_vars


\* The goroutines that hold a buffer of the pool.
Holding == {g \in 1..Len(callers) :
               callers[g].pc \in {"reset", "address", "amount", "index", "hash", "put"}}

\* C23: the pooled scratch buffer is free of interference.  Under every
\* interleaving, a call of OptimizedHashLeaf returns HashLeaf of its own
\* arguments (and panics exactly when HashLeaf panics); the buffer a call took
\* is not in the pool and not held by another call until it is put back; its
\* length is 0 before the first write; and what is hashed is the encoding of
\* the call's own arguments, whatever an earlier call left in the buffer.
C23_PoolInterferenceFree ==
    \A g \in 1..Len(callers) :
       LET c == callers[g]
           encoding == (Zeros(WordSize - AddressLength) \o c.address)
                       \o FillBytes(c.amount, WordSize) \o PutUint32(c.index)
       IN  /\ c.pc \in {"put", "done"} =>
                 /\ ~HashLeafPanics(c.address, c.amount, c.index)
                 /\ c.result = HashLeaf(c.address, c.amount, c.index)
           /\ c.pc = "panic" => HashLeafPanics(c.address, c.amount, c.index)
           /\ g \in Holding =>
                 /\ c.ptr \notin pool.free
                 /\ \A h \in Holding \ {g} : callers[h].ptr # c.ptr
           /\ c.pc = "address" => c.len = 0
           /\ c.pc = "hash" => SubSeq(pool.arrays[c.ptr], 1, c.len) = encoding

\* A call is about to hash in a buffer that an earlier call with other
\* arguments used and put back, while another call holds a buffer of its own.
C23_Witness ==
    /\ Len(callers) = 2
    /\ callers[1].pc = "done"
    /\ callers[2].pc = "hash"
    /\ callers[2].ptr = callers[1].ptr
    /\ callers[2].address # callers[1].address
    /\ callers[2].amount # callers[1].amount


\* The processFn invocations in progress.
InProgress == {w \in 1..Len(workers) : workers[w].pc = "work"}

\* C24: fail-fast batch processing.  When ProcessClaims has returned, it
\* returned a non-nil error exactly when some processFn invocation had returned
\* a non-nil error by then, the error is one of those, and never are more than
\* Workers invocations in progress.
C24_FailFast ==
    /\ Cardinality(InProgress) <= batch.Workers
    /\ main.pc = "returned" =>
          LET failed == {k \in 1..Len(main.seen) : main.seen[k].out \notin {Running, 0}}
          IN  /\ main.ret # 0 <=> failed # {}
              /\ main.ret # 0 => \E k \in failed : main.seen[k].out = main.ret

\* ProcessClaims has returned the error of the second invocation while the
\* first, which returned nil, had its result read before.
C24_Witness ==
    /\ main.pc = "returned"
    /\ main.ret # 0
    /\ Len(main.seen) >= 2
    /\ main.seen[1].out = 0
    /\ main.seen[2].out = main.ret


\* The batches of a ProcessClaims call: claims[lo:hi] for lo = 0, BatchSize,
\* 2*BatchSize, ... below len(claims).
BatchesOf(n, size) ==
    {[lo |-> j * size, hi |-> IF (j + 1) * size > n THEN n ELSE (j + 1) * size] :
        j \in 0..(((n + size - 1) \div size) - 1)}

\* C25: success means that everything was processed.  When ProcessClaims has
\* returned nil, processFn was invoked exactly once on each of the
\* ceil(len(claims)/BatchSize) consecutive batches, and every invocation had
\* returned nil.
C25_SuccessMeansAll ==
    (main.pc = "returned" /\ main.ret = 0 /\ batch.BatchSize >= 1) =>
        /\ Len(main.seen) = Cardinality(BatchesOf(batch.n, batch.BatchSize))
        /\ \A b \in BatchesOf(batch.n, batch.BatchSize) :
              Cardinality({k \in 1..Len(main.seen) :
                              main.seen[k].lo = b.lo /\ main.seen[k].hi = b.hi}) = 1
        /\ \A k \in 1..Len(main.seen) : main.seen[k].out = 0


\* Every goroutine that ProcessClaims started has ended.
BatchGoroutinesEnded ==
    /\ \A w \in 1..Len(workers) : workers[w].pc = "done"
    /\ sender.pc = "done"
    /\ closer = "done"

\* C26: no goroutine of the batch processor stays stuck.  With Workers >= 1 and
\* BatchSize >= 1, a ProcessClaims call eventually returns, and once it has
\* returned, the workers, the sender and the closer eventually all end.
C26_NoStuckGoroutines ==
    /\ [](((main.pc = "collect" /\ batch.Workers >= 1) => <>(main.pc = "returned")))
    /\ [](((main.pc = "returned" /\ batch.Workers >= 1) => <>BatchGoroutinesEnded))


\* Every goroutine that GenerateAllProofs started has ended, and both channels
\* are closed.
PipelineGoroutinesEnded ==
    /\ \A w \in 1..Len(workers) : workers[w].pc = "done"
    /\ sender = 0 /\ jobs.closed
    /\ closer = "done" /\ results.closed

\* C27: the pipeline terminates.  For every tree (one without claims included)
\* and every interleaving, a GenerateAllProofs call eventually returns; once it
\* has returned (with an error, too) every goroutine it started eventually ends
\* with both channels closed; no send ever finds its channel full; and each
\* channel is closed by one step only and stays closed.
C27_PipelineTermination ==
    /\ []((main.pc = "collect") => <>(main.pc = "returned"))
    /\ []((main.pc = "returned") => <>PipelineGoroutinesEnded)
    /\ []((main.pc # "idle" /\ sender >= 1 /\ sender <= Len(TreeClaimsOf(main.t)))
             => Len(jobs.buf) < jobs.cap)
    /\ [](\A w \in 1..Len(workers) :
             workers[w].pc = "work" => Len(results.buf) < results.cap)
    /\ [][/\ jobs.closed => (jobs'.closed /\ sender' = sender)
          /\ results.closed => (results'.closed /\ closer' = closer)
          /\ (sender # 0 /\ sender' = 0) => (~jobs.closed /\ jobs'.closed)
          /\ (closer = "waiting" /\ closer' = "done")
                => (~results.closed /\ results'.closed)]_vars

\* A call on a tree of three claims has returned early with an error, and all
\* its goroutines have ended.
C27_Witness ==
    /\ main.pc = "returned"
    /\ main.err
    /\ Len(TreeClaimsOf(main.t)) = 3
    /\ PipelineGoroutinesEnded


RECURSIVE SumSeq(_)
SumSeq(s) == IF s = <<>> THEN 0 ELSE Head(s) + SumSeq(Tail(s))

RECURSIVE SumOver(_, _)
SumOver(f, S) ==
    IF S = {} THEN 0
    ELSE LET a == CHOOSE x \in S : TRUE IN f[a] + SumOver(f, S \ {a})

\* C28: the claimed total is the sum of what was claimed.  In every state of a
\* deployed MerkleAirdrop, totalClaimed is the sum of the amounts of the Claimed
\* events, as many accounts have claimed = true as there are Claimed events,
\* totalClaimed never decreases, and a step of updateDeadline or
\* withdrawUnclaimed changes neither claimed nor totalClaimed.
C28_ClaimedTotal ==
    /\ [](merkleRoot.len = WordSize =>
            /\ totalClaimed = SumOver([a \in ChainAccounts |-> SumSeq(emitted[a])],
                                      ChainAccounts)
            /\ Cardinality({a \in ChainAccounts : claimed[a]})
                  = SumOver([a \in ChainAccounts |-> Len(emitted[a])], ChainAccounts))
    /\ [][/\ totalClaimed' >= totalClaimed
          /\ (txn' # txn /\ txn'.op \in {"updateDeadline", "withdrawUnclaimed"})
                => (claimed' = claimed /\ totalClaimed' = totalClaimed)]_vars

\* Two accounts have claimed, and the owner has then withdrawn the rest.
C28_Witness ==
    /\ txn.op = "withdrawUnclaimed" /\ ~txn.reverted
    /\ Cardinality({a \in DOMAIN claimed : claimed[a]}) = 2
    /\ totalClaimed > 0
    /\ balances[ContractAddress] = 0


\* Two claim lists hold the same claims (address and amount), in any order.
SameClaimSet(c1, c2) ==
    /\ Len(c1) = Len(c2)
    /\ \E p \in Permutations(1..Len(c1)) :
          \A i \in 1..Len(c1) :
             c1[i].Address = c2[p[i]].Address /\ c1[i].Amount = c2[p[i]].Amount

\* C29: the root binds the claim set.  When NewMerkleTree has built a tree, it
\* builds a tree with the same root from no list that holds other claims (more
\* or fewer, another address, another amount), and verifyProof accepts, with
\* any of the tree's proofs, no claim that is not a claim of the tree.
C29_CommitmentBinding ==
    (ret.op = "NewMerkleTree" /\ ~ret.err /\ ~ret.panic) =>
        LET tree == trees[ret.t]
            claims == TreeClaimsOf(ret.t)
        IN  /\ \A other \in AnyLists \cup SubsetLists :
                  \A o \in NewMerkleTree(other, ret.s) :
                     (o.tree.Built /\ o.tree.Root = tree.Root)
                        => SameClaimSet(other, claims)
            /\ \A c \in AnyClaims : \A x \in 0..1 : \A i \in 1..Len(claims) :
                  LET forged == [c EXCEPT !.Index = x]
                      v == verifyProof(generateProofPath(LeafHashes(tree), i - 1),
                                       forged, GetRootHash(tree))
                  IN  (~v.panic /\ v.result) =>
                         \E k \in 1..Len(claims) :
                            /\ claims[k].Address = forged.Address
                            /\ claims[k].Amount = forged.Amount
                            /\ claims[k].Index = forged.Index

====
